---- MODULE Spec2Model ----
(***************************************************************************)
(* Voice-call subsystem of whatomate: the call-session registry, the       *)
(* inbound WebRTC negotiation, the call webhook, the audio bridge/player   *)
(* stop signal and the agent-transfer queue.                               *)
(*                                                                         *)
(* Several specifications share the variables:                             *)
(*   Spec         - call sessions: registry, negotiation, webhook,         *)
(*                  transfers                                              *)
(*   SpecLog      - the call webhook's CallLog rows                        *)
(*   SpecStop     - AudioBridge.Stop / AudioPlayer.Stop called by          *)
(*                  goroutines                                             *)
(*   SpecQueue, SpecQueueOps - the persisted agent-transfer queue          *)
(*   SpecBridge, SpecBridgeLive - the audio drain and the AudioBridge      *)
(*   SpecReg      - the registry under Manager.mu                          *)
(*   SpecLogLive  - SpecLog with the goroutines scheduled fairly           *)
(*   SpecLocks    - lock acquisition on Manager.mu and CallSession.mu      *)
(*   SpecDtmf, SpecDtmfClose - the DTMF read loop and the session's DTMF   *)
(*                  channel, without and with the cleanup's close          *)
(*   SpecPlay, SpecLoopLive - AudioPlayer.PlayFile and PlayFileLoop        *)
(*   SpecIvr      - a caller's walk through an IVR menu                    *)
(*   SpecPerm     - call permissions of a contact                          *)
(*   SpecFlows    - the IVR flows of the organizations' accounts           *)
(* Each leaves the other parts' variables at their initial values; the    *)
(* media parts a specification does not follow are off.                    *)
(***************************************************************************)
EXTENDS Integers, Sequences, FiniteSets, TLC

\* ------------------------------------------------------------------ bounds
\* `go m.cleanupSession` goroutines waiting to be scheduled.
MaxSpawned == 1
\* Goroutines calling Stop, and the Stop calls each makes.
MaxStoppers == 2
MaxStopCalls == 2
\* Rows of agent_transfers, and the last instant of the clock.
MaxTransfers == 2
MaxClock == 1
\* RTP packets each remote track receives.
MaxPackets == 2
\* GetSession calls of each goroutine.
MaxGets == 2
\* Telephone events the DTMF track delivers.
MaxEvents == 34
\* Pages of the longest OGG file played.
MaxPages == 65540
\* Digits and timeouts one IVR run receives.
MaxDigits == 5
\* Hours the clock runs, and CallPermission rows created.
MaxHours == 75
MaxPerms == 2
\* IVRFlow rows created.
MaxFlows == 3

\* The provider call ID the model follows.
CallIDs == {"c1"}
\* The session objects HandleIncomingCall may create, one per "ringing" event.
SessIds == {1, 2}
NoSession == 0
\* The goroutines serving webhooks, callbacks and spawned cleanups.
Threads == {1, 2}

\* Goroutines: pooled handler threads and one negotiation goroutine per session.
Thr(t) == <<"thr", t>>
Neg(s) == <<"neg", s>>
Procs == {Thr(t) : t \in Threads} \cup {Neg(s) : s \in SessIds}
NoHolder == <<"none", 0>>

VARIABLES
    sessions,   \* Manager.sessions: call ID -> session object (or NoSession)
    sess,       \* the CallSession objects' fields
    smu,        \* CallSession.mu: NoHolder, or the goroutine that locked it
    proc,       \* each goroutine's position and locals
    provider,   \* per session object: the actions the provider received
    callLog,    \* CallLog rows (one per "ringing"), by creating session
    xfer,       \* persisted call-transfer row of a session's call
    spawned,    \* `go m.cleanupSession(callID)` goroutines not yet scheduled
    nextSess,   \* next session object to allocate
    crashed,    \* "no", or the runtime error that killed the process
    stopCh,     \* SpecStop: the stop channel of the bridge / the player
    stopper,    \* SpecStop: each caller of Stop
    transfers,  \* SpecQueue: agent_transfers rows, in insertion order
    clock,      \* SpecQueue: time.Now() of the next created transfer
    replies,    \* SpecQueue: the last handler's response
    track,      \* SpecBridge: packets received on a remote track, not yet read
    arrived,    \* SpecBridge: packets each remote track has received so far
    fwd,        \* SpecBridge: the forward goroutine reading each remote track
    readLog,    \* SpecBridge: what each forward goroutine read, in order
    wroteLog,   \* SpecBridge: what it wrote to its local track, in order
    wg,         \* SpecBridge: AudioBridge.wg
    starter,    \* SpecBridge: the goroutine running AudioBridge.Start
    BridgeStarted, \* SpecBridge: CallSession.BridgeStarted is closed
    drain,      \* SpecBridge: the consumeAudioTrack goroutine
    mmu,        \* SpecReg: Manager.mu, its writer and its readers
    caller,     \* SpecReg: each goroutine's position in a registry operation
    dtmf,       \* SpecDtmf: the digits buffered in CallSession.DTMFBuffer
    dtmfLoop,   \* SpecDtmf: the handleDTMFTrack goroutine
    player,     \* SpecPlay: the goroutine in PlayFile / PlayFileLoop
    rtp,        \* SpecPlay: the packets written to the player's track
    dtmfClosed, \* SpecDtmfClose: CallSession.DTMFBuffer has been closed
    ivr,        \* SpecIvr: the IVR interpreter of one call
    permissions, \* SpecPerm: call_permissions rows, in creation order
    hours,      \* SpecPerm: time.Now(), in hours
    permReply,  \* SpecPerm: the last GetCallPermission response
    flows       \* SpecFlows: ivr_flows rows, in creation order

callVars == <<sessions, sess, smu, proc, provider, callLog, xfer, spawned,
              nextSess, crashed>>
stopVars == <<stopCh, stopper>>
queueVars == <<transfers, clock, replies>>
bridgeVars == <<track, arrived, fwd, readLog, wroteLog, wg, starter,
                BridgeStarted, drain>>
regVars == <<mmu, caller>>
dtmfVars == <<dtmf, dtmfLoop, dtmfClosed>>
playVars == <<player, rtp>>
ivrVars == <<ivr>>
permVars == <<permissions, hours, permReply>>
flowVars == <<flows>>
adminVars == <<ivrVars, permVars, flowVars>>
mediaVars == <<bridgeVars, regVars, dtmfVars, playVars, adminVars>>
vars == <<callVars, stopVars, queueVars, mediaVars>>
nonBridgeVars == <<callVars, stopVars, queueVars, regVars, dtmfVars, playVars,
                   adminVars>>
nonDtmfVars == <<callVars, stopVars, queueVars, bridgeVars, regVars, playVars,
                 adminVars>>
nonPlayVars == <<callVars, stopCh, stopper, queueVars, bridgeVars, regVars,
                 dtmfVars, adminVars>>
nonAdminVars == <<callVars, stopVars, queueVars, bridgeVars, regVars, dtmfVars,
                  playVars>>

\* ------------------------------------------------------------ call sessions
Alive == crashed = "no"
TheCall == CHOOSE c \in CallIDs : TRUE

\* No SDP yet, and no request sent yet.
NoSDP == <<"none", NoSession>>
NoPayload == [action |-> "none", sdp |-> NoSDP]

\* A CallSession that HandleIncomingCall has not created yet.
NilSession ==
    [Status |-> "none", TransferStatus |-> "none", PeerConnection |-> "nil",
     AgentPC |-> "nil", DTMFBuffer |-> "nil", Bridge |-> "nil",
     HoldPlayer |-> "nil", TransferCancel |-> "nil", IVRFlow |-> FALSE,
     handlers |-> FALSE, connected |-> FALSE, ctxDone |-> FALSE,
     sdpAnswer |-> NoSDP,
     \* history, for the properties
     failedAt |-> "none", ivrStarted |-> FALSE, teardowns |-> 0,
     dtmfCloses |-> 0, bridgeStarts |-> 0, removed |-> FALSE,
     endedWhile |-> "none", preAccept |-> NoPayload, accept |-> NoPayload]

\* The session object HandleIncomingCall builds.
NewSession(hasFlow) ==
    [NilSession EXCEPT !.Status = "ringing", !.DTMFBuffer = "open",
                       !.IVRFlow = hasFlow]

IdleProc == [pc |-> "idle", cs |-> NoSession, ev |-> "none", ret |-> "idle"]
NoLog == [status |-> "none", answered_at |-> FALSE, ended_at |-> FALSE,
          error_message |-> FALSE]
NoXfer == [status |-> "none", duration |-> FALSE]

InitCall ==
    /\ sessions = [c \in CallIDs |-> NoSession]
    /\ sess = [s \in SessIds |-> NilSession]
    /\ smu = [s \in SessIds |-> NoHolder]
    /\ proc = [g \in Procs |-> IdleProc]
    /\ provider = [s \in SessIds |-> {}]
    /\ callLog = [s \in SessIds |-> NoLog]
    /\ xfer = [s \in SessIds |-> NoXfer]
    /\ spawned = 0
    /\ nextSess = 1
    /\ crashed = "no"

\* sync.Mutex.Unlock: unlocking an unlocked mutex is a fatal runtime error; a
\* locked mutex is released whoever locked it.
Release(s) ==
    /\ smu' = [smu EXCEPT ![s] = NoHolder]
    /\ crashed' = IF smu[s] = NoHolder
                  THEN "fatal error: sync: unlock of unlocked mutex"
                  ELSE crashed

\* The CallLog rows of the call (whatsapp_call_id = ? AND organization_id = ?).
Rows == {r \in SessIds : callLog[r].status # "none"}

\* processCallWebhook's trailing `if ce.Error != nil` update of every row.
WithError(log, err) ==
    [r \in SessIds |->
        IF err /\ log[r].status # "none"
        THEN [log[r] EXCEPT !.status = "failed", !.error_message = TRUE,
                            !.ended_at = TRUE]
        ELSE log[r]]

\* HandleIncomingCall: builds the session, registers it under the call ID and,
\* given an SDP offer, starts the negotiation goroutine.
HandleIncomingCall(s, hasSdp, hasFlow) ==
    /\ sess' = [sess EXCEPT ![s] = NewSession(hasFlow)]
    /\ sessions' = [sessions EXCEPT ![TheCall] = s]
    /\ proc' = [proc EXCEPT ![Neg(s)].pc = IF hasSdp THEN "createPC" ELSE "done"]

\* processCallWebhook "ringing": creates the CallLog row, hands the call to
\* HandleIncomingCall, then applies the error update.
WebhookRinging(hasSdp, hasFlow, err) ==
    /\ Alive
    /\ nextSess \in SessIds
    /\ callLog' = WithError([callLog EXCEPT ![nextSess] =
                      [NoLog EXCEPT !.status = "ringing"]], err)
    /\ HandleIncomingCall(nextSess, hasSdp, hasFlow)
    /\ nextSess' = nextSess + 1
    /\ UNCHANGED <<smu, provider, xfer, spawned, crashed, stopVars, mediaVars, queueVars>>

\* The first "ringing" event of the call.
Ringing(hasSdp, hasFlow) ==
    /\ nextSess = 1
    /\ WebhookRinging(hasSdp, hasFlow, FALSE)

\* rejectCall: RejectCall(ctx, ...) goes through doRequest with the negotiation's
\* context; with the deadline passed the request is not sent.
rejectCall(s) ==
    IF sess[s].ctxDone THEN provider[s] ELSE provider[s] \cup {"reject"}

\* A negotiation step that failed: log, rejectCall, return.
NegFail(s, step) ==
    /\ sess' = [sess EXCEPT ![s].failedAt = step]
    /\ provider' = [provider EXCEPT ![s] = rejectCall(s)]
    /\ proc' = [proc EXCEPT ![Neg(s)].pc = "done"]

NegGoto(s, next) == proc' = [proc EXCEPT ![Neg(s)].pc = next]

negFrame == <<sessions, smu, callLog, xfer, spawned, nextSess, crashed,
              stopVars, mediaVars, queueVars>>

\* m.createPeerConnection(); on success session.PeerConnection = pc.
NegCreatePC(s, ok) ==
    /\ Alive /\ proc[Neg(s)].pc = "createPC"
    /\ IF ok
       THEN /\ smu[s] = NoHolder
            /\ sess' = [sess EXCEPT ![s].PeerConnection = "open"]
            /\ NegGoto(s, "track")
            /\ UNCHANGED provider
       ELSE NegFail(s, "createPC")
    /\ UNCHANGED negFrame

\* NewTrackLocalStaticRTP, pc.AddTrack, then OnTrack and
\* OnConnectionStateChange are registered.
NegTrack(s, ok) ==
    /\ Alive /\ proc[Neg(s)].pc = "track"
    /\ IF ok
       THEN /\ smu[s] = NoHolder
            /\ sess' = [sess EXCEPT ![s].handlers = TRUE]
            /\ NegGoto(s, "setRemote")
            /\ UNCHANGED provider
       ELSE NegFail(s, "track")
    /\ UNCHANGED negFrame

\* Step 1: pc.SetRemoteDescription(offer); a closed connection refuses it.
NegSetRemote(s, ok) ==
    /\ Alive /\ proc[Neg(s)].pc = "setRemote"
    /\ IF ok /\ sess[s].PeerConnection = "open"
       THEN NegGoto(s, "answer") /\ UNCHANGED <<sess, provider>>
       ELSE NegFail(s, "setRemote")
    /\ UNCHANGED negFrame

\* Step 2: pc.CreateAnswer, pc.SetLocalDescription.
NegAnswer(s, ok) ==
    /\ Alive /\ proc[Neg(s)].pc = "answer"
    /\ IF ok /\ sess[s].PeerConnection = "open"
       THEN NegGoto(s, "gather") /\ UNCHANGED <<sess, provider>>
       ELSE NegFail(s, "answer")
    /\ UNCHANGED negFrame

\* select { <-gatherComplete | <-ctx.Done() }: on the deadline rejectCall is
\* called with the expired context.
NegGather(s, ok) ==
    /\ Alive /\ proc[Neg(s)].pc = "gather"
    /\ IF ok
       THEN NegGoto(s, "localDesc") /\ UNCHANGED <<sess, provider>>
       ELSE /\ sess' = [sess EXCEPT ![s].ctxDone = TRUE,
                                    ![s].failedAt = "gather"]
            /\ UNCHANGED provider
            /\ proc' = [proc EXCEPT ![Neg(s)].pc = "done"]
    /\ UNCHANGED negFrame

\* The SDP of the local description CreateAnswer produced for the session.
LocalSDP(s) == <<"answer", s>>

\* pc.LocalDescription() == nil; otherwise sdpAnswer := localDesc.SDP.
NegLocalDesc(s, ok) ==
    /\ Alive /\ proc[Neg(s)].pc = "localDesc"
    /\ IF ok
       THEN /\ sess' = [sess EXCEPT ![s].sdpAnswer = LocalSDP(s)]
            /\ NegGoto(s, "preAccept")
            /\ UNCHANGED provider
       ELSE NegFail(s, "localDesc")
    /\ UNCHANGED negFrame

\* The SDP a pre_accept / an accept request carries to the provider.
PreAcceptCall(sdpAnswer) == [action |-> "pre_accept", sdp |-> sdpAnswer]
AcceptCall(sdpAnswer) == [action |-> "accept", sdp |-> sdpAnswer]

\* Step 3 with the error of PreAcceptCall ignored.
NegPreAcceptIgnoreError(s, ok) ==
    /\ Alive /\ proc[Neg(s)].pc = "preAccept"
    /\ IF ok
       THEN /\ provider' = [provider EXCEPT ![s] = @ \cup {"pre_accept"}]
            /\ sess' = [sess EXCEPT ![s].preAccept =
                                       PreAcceptCall(sess[s].sdpAnswer)]
       ELSE UNCHANGED <<provider, sess>>
    /\ NegGoto(s, "accept")
    /\ UNCHANGED negFrame

\* Step 3: PreAcceptCall with sdpAnswer; on error rejectCall and return.
NegPreAccept(s, ok) ==
    /\ Alive /\ proc[Neg(s)].pc = "preAccept"
    /\ IF ok
       THEN /\ provider' = [provider EXCEPT ![s] = @ \cup {"pre_accept"}]
            /\ sess' = [sess EXCEPT ![s].preAccept =
                                       PreAcceptCall(sess[s].sdpAnswer)]
            /\ NegGoto(s, "accept")
       ELSE NegFail(s, "preAccept")
    /\ UNCHANGED negFrame

\* Step 4: AcceptCall with the same sdpAnswer; on error the function logs and
\* returns.
NegAccept(s, ok) ==
    /\ Alive /\ proc[Neg(s)].pc = "accept"
    /\ IF ok
       THEN /\ provider' = [provider EXCEPT ![s] = @ \cup {"accept"}]
            /\ sess' = [sess EXCEPT ![s].accept = AcceptCall(sess[s].sdpAnswer)]
            /\ NegGoto(s, "setAnswered")
       ELSE /\ sess' = [sess EXCEPT ![s].failedAt = "accept"]
            /\ proc' = [proc EXCEPT ![Neg(s)].pc = "done"]
            /\ UNCHANGED provider
    /\ UNCHANGED negFrame

\* session.mu.Lock(); session.Status = answered; session.mu.Unlock().
NegSetAnswered(s) ==
    /\ Alive /\ proc[Neg(s)].pc = "setAnswered"
    /\ smu[s] = NoHolder
    /\ sess' = [sess EXCEPT ![s].Status = "answered"]
    /\ NegGoto(s, "waitMedia")
    /\ UNCHANGED <<provider, negFrame>>

\* terminateCall: the provider is told to terminate, then the session is
\* cleaned up by call ID.
terminateCall(s) ==
    /\ provider' = [provider EXCEPT ![s] = @ \cup {"terminate"}]
    /\ proc' = [proc EXCEPT ![Neg(s)] =
                    [pc |-> "clLookup", cs |-> NoSession, ev |-> "none",
                     ret |-> "done"]]

\* The media wait left out: the negotiation goes on whether or not the
\* connection was reported.
NegWaitMediaNoWait(s, timeout) ==
    /\ Alive /\ proc[Neg(s)].pc = "waitMedia"
    /\ NegGoto(s, "ivr")
    /\ UNCHANGED <<sess, provider, negFrame>>

\* select { <-connected | <-time.After(15s) }: on the timeout terminateCall.
NegWaitMedia(s, timeout) ==
    /\ Alive /\ proc[Neg(s)].pc = "waitMedia"
    /\ IF ~timeout
       THEN /\ sess[s].connected
            /\ NegGoto(s, "ivr")
            /\ UNCHANGED <<sess, provider>>
       ELSE /\ ~sess[s].connected
            /\ sess' = [sess EXCEPT ![s].failedAt = "waitMedia"]
            /\ terminateCall(s)
    /\ UNCHANGED negFrame

\* if session.IVRFlow != nil { go m.runIVRFlow(...) }
NegStartIVR(s) ==
    /\ Alive /\ proc[Neg(s)].pc = "ivr"
    /\ sess' = [sess EXCEPT ![s].ivrStarted = sess[s].IVRFlow]
    /\ NegGoto(s, "done")
    /\ UNCHANGED <<provider, negFrame>>

\* OnConnectionStateChange(Connected): close(connected) unless already closed.
PCConnected(s) ==
    /\ Alive
    /\ sess[s].handlers /\ sess[s].PeerConnection = "open"
    /\ proc[Neg(s)].pc \in {"gather", "localDesc", "preAccept", "accept",
                            "setAnswered", "waitMedia"}
    /\ ~sess[s].connected
    /\ sess' = [sess EXCEPT ![s].connected = TRUE]
    /\ UNCHANGED <<sessions, smu, proc, provider, callLog, xfer, spawned,
                   nextSess, crashed, stopVars, mediaVars, queueVars>>

\* ----------------------------------------------------------------- cleanup
\* cleanupSession with the delete from the map left out.
CleanupLookupNoDelete(g) ==
    /\ Alive /\ proc[g].pc = "clLookup"
    /\ LET s == sessions[TheCall] IN
        IF s # NoSession
        THEN /\ proc' = [proc EXCEPT ![g].pc = "clLock", ![g].cs = s]
             /\ UNCHANGED <<sessions, sess>>
        ELSE /\ proc' = [proc EXCEPT ![g].pc = proc[g].ret, ![g].ret = "idle"]
             /\ UNCHANGED <<sessions, sess>>
    /\ UNCHANGED <<smu, provider, callLog, xfer, spawned, nextSess, crashed,
                   stopVars, mediaVars, queueVars>>

\* cleanupSession, first part: under m.mu, look the call ID up and delete it.
CleanupLookup(g) ==
    /\ Alive /\ proc[g].pc = "clLookup"
    /\ LET s == sessions[TheCall] IN
        IF s # NoSession
        THEN /\ sessions' = [sessions EXCEPT ![TheCall] = NoSession]
             /\ sess' = [sess EXCEPT ![s].removed = TRUE]
             /\ proc' = [proc EXCEPT ![g].pc = "clLock", ![g].cs = s]
        ELSE /\ proc' = [proc EXCEPT ![g].pc = proc[g].ret, ![g].ret = "idle"]
             /\ UNCHANGED <<sessions, sess>>
    /\ UNCHANGED <<smu, provider, callLog, xfer, spawned, nextSess, crashed,
                   stopVars, mediaVars, queueVars>>

\* cleanupSession: session.mu.Lock().
CleanupLock(g) ==
    /\ Alive /\ proc[g].pc = "clLock"
    /\ smu[proc[g].cs] = NoHolder
    /\ smu' = [smu EXCEPT ![proc[g].cs] = g]
    /\ proc' = [proc EXCEPT ![g].pc = "clTeardown"]
    /\ UNCHANGED <<sessions, sess, provider, callLog, xfer, spawned, nextSess,
                   crashed, stopVars, mediaVars, queueVars>>

Stopped(x) == IF x = "nil" THEN "nil" ELSE "stopped"
Closed(x) == IF x = "nil" THEN "nil" ELSE "closed"

\* The teardown with the bridge left running.
TeardownKeepsBridge(r) ==
    [r EXCEPT !.HoldPlayer = Stopped(@),
              !.TransferCancel = IF @ = "nil" THEN "nil" ELSE "called",
              !.AgentPC = Closed(@), !.PeerConnection = Closed(@),
              !.DTMFBuffer = Closed(@),
              !.dtmfCloses = IF r.DTMFBuffer = "nil" THEN @ ELSE @ + 1,
              !.teardowns = @ + 1]

\* The session after cleanupSession's teardown: bridge and hold player stopped,
\* the transfer's cancel function called, the peer connections closed, the DTMF
\* channel closed.
Teardown(r) ==
    [r EXCEPT !.Bridge = Stopped(@), !.HoldPlayer = Stopped(@),
              !.TransferCancel = IF @ = "nil" THEN "nil" ELSE "called",
              !.AgentPC = Closed(@), !.PeerConnection = Closed(@),
              !.DTMFBuffer = Closed(@),
              !.dtmfCloses = IF r.DTMFBuffer = "nil" THEN @ ELSE @ + 1,
              !.teardowns = @ + 1]

\* cleanupSession, second part, under session.mu (released by the deferred
\* Unlock). close() of an already closed channel panics.
CleanupTeardown(g) ==
    /\ Alive /\ proc[g].pc = "clTeardown"
    /\ LET s == proc[g].cs IN
        IF sess[s].DTMFBuffer = "closed"
        THEN /\ crashed' = "panic: close of closed channel"
             /\ UNCHANGED <<sess, smu, proc>>
        ELSE /\ sess' = [sess EXCEPT ![s] = Teardown(sess[s])]
             /\ Release(s)
             /\ proc' = [proc EXCEPT ![g] =
                    [pc |-> proc[g].ret, cs |-> NoSession, ev |-> "none",
                     ret |-> "idle"]]
    /\ UNCHANGED <<sessions, provider, callLog, xfer, spawned, nextSess,
                   stopVars, mediaVars, queueVars>>

StartCleanup(g, ret) ==
    proc' = [proc EXCEPT ![g] = [pc |-> "clLookup", cs |-> NoSession,
                                 ev |-> "none", ret |-> ret]]

\* OnConnectionStateChange(Failed | Disconnected): m.EndCall(session.ID).
PCFailed(t, s) ==
    /\ Alive /\ proc[Thr(t)].pc = "idle"
    /\ sess[s].handlers /\ sess[s].PeerConnection = "open"
    /\ StartCleanup(Thr(t), "idle")
    /\ UNCHANGED <<sessions, sess, smu, provider, callLog, xfer, spawned,
                   nextSess, crashed, stopVars, mediaVars, queueVars>>

\* A goroutine started by `go m.cleanupSession(callID)` gets to run.
RunSpawned(t) ==
    /\ Alive /\ proc[Thr(t)].pc = "idle"
    /\ spawned > 0
    /\ spawned' = spawned - 1
    /\ StartCleanup(Thr(t), "idle")
    /\ UNCHANGED <<sessions, sess, smu, provider, callLog, xfer, nextSess,
                   crashed, stopVars, mediaVars, queueVars>>

\* ----------------------------------------------------------------- webhook
\* processCallWebhook "in_call": every row of the call becomes answered.
WebhookInCall(err) ==
    /\ Alive /\ Rows # {}
    /\ callLog' = WithError(
          [r \in SessIds |->
              IF r \in Rows
              THEN [callLog[r] EXCEPT !.status = "answered",
                                      !.answered_at = TRUE]
              ELSE callLog[r]], err)
    /\ UNCHANGED <<sessions, sess, smu, proc, provider, xfer, spawned,
                   nextSess, crashed, stopVars, mediaVars, queueVars>>

\* processCallWebhook "missed" / "unanswered": every row becomes missed.
WebhookMissed(err) ==
    /\ Alive /\ Rows # {}
    /\ callLog' = WithError(
          [r \in SessIds |->
              IF r \in Rows
              THEN [callLog[r] EXCEPT !.status = "missed", !.ended_at = TRUE]
              ELSE callLog[r]], err)
    /\ UNCHANGED <<sessions, sess, smu, proc, provider, xfer, spawned,
                   nextSess, crashed, stopVars, mediaVars, queueVars>>

\* processCallWebhook "ended": the first row found is marked completed, then
\* CallManager.EndCall(ce.ID) runs in the handler's goroutine; the error
\* update follows once EndCall has returned.
WebhookEnded(t, r, err) ==
    /\ Alive /\ proc[Thr(t)].pc = "idle"
    /\ r \in Rows
    /\ callLog' = [callLog EXCEPT ![r].status = "completed",
                                  ![r].ended_at = TRUE]
    /\ sess' = [s \in SessIds |->
                  IF sessions[TheCall] = s /\ sess[s].endedWhile = "none"
                  THEN [sess[s] EXCEPT !.endedWhile =
                           IF sess[s].TransferStatus \in {"waiting", "connected"}
                           THEN sess[s].TransferStatus ELSE "plain"]
                  ELSE sess[s]]
    /\ StartCleanup(Thr(t), IF err THEN "whErr" ELSE "idle")
    /\ UNCHANGED <<sessions, smu, provider, xfer, spawned, nextSess, crashed,
                   stopVars, mediaVars, queueVars>>

\* The `if ce.Error != nil` update after an "ended" event.
WebhookError(t) ==
    /\ Alive /\ proc[Thr(t)].pc = "whErr"
    /\ callLog' = WithError(callLog, TRUE)
    /\ proc' = [proc EXCEPT ![Thr(t)] = IdleProc]
    /\ UNCHANGED <<sessions, sess, smu, provider, xfer, spawned, nextSess,
                   crashed, stopVars, mediaVars, queueVars>>

\* -------------------------------------------------- transfer orchestration
\* RequestTransfer: a waiting transfer row is created, hold audio starts, the
\* session's transfer state becomes waiting.
RequestTransfer(s) ==
    /\ Alive
    /\ sessions[TheCall] = s /\ smu[s] = NoHolder
    /\ sess[s].Status = "answered" /\ sess[s].TransferStatus = "none"
    /\ sess' = [sess EXCEPT ![s].TransferStatus = "waiting",
                            ![s].HoldPlayer = "playing",
                            ![s].TransferCancel = "set"]
    /\ xfer' = [xfer EXCEPT ![s].status = "waiting"]
    /\ UNCHANGED <<sessions, smu, proc, provider, callLog, spawned, nextSess,
                   crashed, stopVars, mediaVars, queueVars>>

\* ConnectTransfer: an agent takes the waiting transfer; hold audio stops, the
\* bridge is started, the transfer becomes connected.
ConnectTransfer(s) ==
    /\ Alive
    /\ sessions[TheCall] = s /\ smu[s] = NoHolder
    /\ xfer[s].status = "waiting" /\ sess[s].TransferStatus = "waiting"
    /\ sess' = [sess EXCEPT ![s].TransferStatus = "connected",
                            ![s].HoldPlayer = "stopped",
                            ![s].AgentPC = "open",
                            ![s].Bridge = "running",
                            ![s].bridgeStarts = @ + 1]
    /\ xfer' = [xfer EXCEPT ![s].status = "connected"]
    /\ UNCHANGED <<sessions, smu, proc, provider, callLog, spawned, nextSess,
                   crashed, stopVars, mediaVars, queueVars>>

\* EndTransfer's effect: the bridge is stopped, the talk duration persisted,
\* the row marked completed.
EndTransfer(s) ==
    /\ sess' = [sess EXCEPT ![s].TransferStatus = "completed",
                            ![s].Bridge = Stopped(@)]
    /\ xfer' = [xfer EXCEPT ![s] = [status |-> "completed", duration |-> TRUE]]

\* HandleCallerHangupDuringTransfer's effect: the caller left the queue; hold
\* audio stops and the row is marked abandoned.
HandleCallerHangupDuringTransfer(s) ==
    /\ sess' = [sess EXCEPT ![s].TransferStatus = "abandoned",
                            ![s].HoldPlayer = Stopped(@),
                            ![s].TransferCancel = "called"]
    /\ xfer' = [xfer EXCEPT ![s].status = "abandoned"]

\* The agent hangs up a connected transfer.
AgentEndsTransfer(s) ==
    /\ Alive
    /\ sessions[TheCall] = s /\ smu[s] = NoHolder
    /\ sess[s].TransferStatus = "connected"
    /\ EndTransfer(s)
    /\ UNCHANGED <<sessions, smu, proc, provider, callLog, spawned, nextSess,
                   crashed, stopVars, mediaVars, queueVars>>

\* ---------------------------------------------------------- HandleCallEvent
\* "unanswered" shares the case of "ended" and "missed" in the switch.
Events == {"in_call", "ended", "missed"}

\* HandleCallEvent, lookup under m.mu.RLock: an absent session drops the event.
HandleCallEvent(t, ev) ==
    /\ Alive /\ proc[Thr(t)].pc = "idle"
    /\ nextSess > 1
    /\ spawned < MaxSpawned
    /\ LET s == sessions[TheCall] IN
        proc' = [proc EXCEPT ![Thr(t)] =
                    IF s = NoSession THEN IdleProc
                    ELSE [pc |-> "evLock", cs |-> s, ev |-> ev, ret |-> "idle"]]
    /\ UNCHANGED <<sessions, sess, smu, provider, callLog, xfer, spawned,
                   nextSess, crashed, stopVars, mediaVars, queueVars>>

\* session.mu.Lock(), defer session.mu.Unlock(), and the switch on the event
\* under the lock. Both transfer branches unlock by hand before calling out;
\* the others return through the deferred Unlock.
EventSwitch(t) ==
    /\ Alive /\ proc[Thr(t)].pc = "evLock"
    /\ smu[proc[Thr(t)].cs] = NoHolder
    /\ LET s == proc[Thr(t)].cs
           ev == proc[Thr(t)].ev
           mark(r) == IF r.endedWhile = "none"
                      THEN [r EXCEPT !.endedWhile =
                               IF r.TransferStatus \in {"waiting", "connected"}
                               THEN r.TransferStatus ELSE "plain"]
                      ELSE r
       IN
        /\ UNCHANGED <<smu, crashed>>
        /\ IF ev = "in_call"
           THEN /\ sess' = [sess EXCEPT ![s].Status = "answered"]
                /\ proc' = [proc EXCEPT ![Thr(t)] = IdleProc]
                /\ UNCHANGED spawned
           ELSE IF sess[s].TransferStatus = "waiting"
           THEN /\ sess' = [sess EXCEPT ![s] = mark(sess[s])]
                /\ proc' = [proc EXCEPT ![Thr(t)].pc = "evHangup"]
                /\ UNCHANGED spawned
           ELSE IF sess[s].TransferStatus = "connected"
           THEN /\ sess' = [sess EXCEPT ![s] = mark(sess[s])]
                /\ proc' = [proc EXCEPT ![Thr(t)].pc = "evEndTransfer"]
                /\ UNCHANGED spawned
           ELSE /\ sess' = [sess EXCEPT ![s] =
                               [mark(sess[s]) EXCEPT !.Status = "completed"]]
                /\ spawned' = spawned + 1
                /\ proc' = [proc EXCEPT ![Thr(t)] = IdleProc]
    /\ UNCHANGED <<sessions, provider, callLog, xfer, nextSess, stopVars, mediaVars,
                   queueVars>>

\* m.HandleCallerHangupDuringTransfer(session), called with the lock released.
EventHangup(t) ==
    /\ Alive /\ proc[Thr(t)].pc = "evHangup"
    /\ smu[proc[Thr(t)].cs] = NoHolder
    /\ HandleCallerHangupDuringTransfer(proc[Thr(t)].cs)
    /\ proc' = [proc EXCEPT ![Thr(t)].pc = "evReturn"]
    /\ UNCHANGED <<sessions, smu, provider, callLog, spawned, nextSess,
                   crashed, stopVars, mediaVars, queueVars>>

\* m.EndTransfer(transferID), called with the lock released.
EventEndTransfer(t) ==
    /\ Alive /\ proc[Thr(t)].pc = "evEndTransfer"
    /\ smu[proc[Thr(t)].cs] = NoHolder
    /\ EndTransfer(proc[Thr(t)].cs)
    /\ proc' = [proc EXCEPT ![Thr(t)].pc = "evReturn"]
    /\ UNCHANGED <<sessions, smu, provider, callLog, spawned, nextSess,
                   crashed, stopVars, mediaVars, queueVars>>

\* The return after either transfer branch runs the deferred Unlock.
EventReturn(t) ==
    /\ Alive /\ proc[Thr(t)].pc = "evReturn"
    /\ Release(proc[Thr(t)].cs)
    /\ proc' = [proc EXCEPT ![Thr(t)] = IdleProc]
    /\ UNCHANGED <<sessions, sess, provider, callLog, xfer, spawned, nextSess,
                   stopVars, mediaVars, queueVars>>

\* ------------------------------------------ AudioBridge.Stop / AudioPlayer.Stop
\* The two stop channels: NewAudioBridge and NewAudioPlayer each make one.
StopObjs == {"bridge", "player"}
Stoppers == 1..MaxStoppers
IdleStopper == [pc |-> "idle", obj |-> "none", calls |-> 0]
NoStopPanic == \A g \in Stoppers : stopper[g].pc # "panic"

InitStop ==
    /\ stopCh = [o \in StopObjs |-> [closed |-> FALSE, closes |-> 0]]
    /\ stopper = [g \in Stoppers |-> IdleStopper]

\* A goroutine calls b.Stop() or p.Stop().
StopCall(g, o) ==
    /\ NoStopPanic
    /\ stopper[g].pc = "idle" /\ stopper[g].calls < MaxStopCalls
    /\ stopper' = [stopper EXCEPT ![g] =
                      [pc |-> "select", obj |-> o, calls |-> @.calls + 1]]
    /\ UNCHANGED <<stopCh, callVars, queueVars, mediaVars>>

\* select { case <-stop: (already stopped) default: ... }: the receive is ready
\* only on a closed channel; otherwise the default branch is taken.
StopSelect(g) ==
    /\ NoStopPanic
    /\ stopper[g].pc = "select"
    /\ stopper' = [stopper EXCEPT ![g].pc =
                      IF stopCh[stopper[g].obj].closed THEN "idle" ELSE "close"]
    /\ UNCHANGED <<stopCh, callVars, queueVars, mediaVars>>

\* default: close(stop). Closing a closed channel panics.
StopClose(g) ==
    /\ NoStopPanic
    /\ stopper[g].pc = "close"
    /\ LET o == stopper[g].obj IN
        IF stopCh[o].closed
        THEN /\ stopper' = [stopper EXCEPT ![g].pc = "panic"]
             /\ UNCHANGED stopCh
        ELSE /\ stopCh' = [stopCh EXCEPT ![o] =
                              [closed |-> TRUE, closes |-> @.closes + 1]]
             /\ stopper' = [stopper EXCEPT ![g].pc = "idle"]
    /\ UNCHANGED <<callVars, queueVars, mediaVars>>

NextStop ==
    \/ \E g \in Stoppers, o \in StopObjs : StopCall(g, o)
    \/ \E g \in Stoppers : StopSelect(g)
    \/ \E g \in Stoppers : StopClose(g)

\* ------------------------------------------------------ agent-transfer queue
Orgs == {"o1", "o2"}
Contacts == {"k1", "k2", "k3"}
Agents == {"a1", "a2", "b1"}
Teams == {"t1"}
NoAgent == "none"
NoTeam == "none"
OrgOfContact(k) == IF k = "k3" THEN "o2" ELSE "o1"
OrgOfAgent(a) == IF a = "b1" THEN "o2" ELSE "o1"
OrgOfTeam(tm) == "o1"
Members(tm) == {"a1"}
\* users.is_available: agent a2 is away.
IsAvailable(a) == a # "a2"

\* A handler's response: the outcome, the row it is about, and for the bulk
\* operations the count and the rows returned.
Reply(op, who, code, id) ==
    [op |-> op, who |-> who, code |-> code, id |-> id, n |-> 0, ids |-> {}]
NoReply == Reply("none", "none", "none", 0)

InitQueue ==
    /\ transfers = <<>>
    /\ clock = 0
    /\ replies = NoReply

Ids == 1..Len(transfers)

\* time.Now() moves on between requests.
Tick ==
    /\ clock < MaxClock
    /\ clock' = clock + 1
    /\ UNCHANGED <<transfers, replies, callVars, stopVars, mediaVars>>

\* Whether the contact already has an active transfer in the organization.
HasActiveNoCheck(org, k) == FALSE
HasActiveTransfer(org, k) ==
    \E i \in Ids : /\ transfers[i].org = org /\ transfers[i].contact = k
                   /\ transfers[i].status = "active"

\* The availability check of a requested agent, left out.
AgentAwayNoCheck(ag) == FALSE
AgentAway(ag) == ag # NoAgent /\ ~IsAvailable(ag)

\* CreateAgentTransfer: one transaction; not found for a contact outside the
\* organization, conflict for a contact with an active transfer, refused for
\* a requested agent who is away, else a new active row stamped with the
\* current time and assigned to the requested agent, if any.
CreateAgentTransfer(org, k, tm, ag) ==
    /\ Len(transfers) < MaxTransfers
    /\ tm # NoTeam => OrgOfTeam(tm) = org
    /\ ag # NoAgent => OrgOfAgent(ag) = org
    /\ IF OrgOfContact(k) # org
       THEN /\ replies' = Reply("create", org, "not_found", 0)
            /\ UNCHANGED transfers
       ELSE IF HasActiveTransfer(org, k)
       THEN /\ replies' = Reply("create", org, "conflict", 0)
            /\ UNCHANGED transfers
       ELSE IF AgentAway(ag)
       THEN /\ replies' = Reply("create", org, "agent_away", 0)
            /\ UNCHANGED transfers
       ELSE /\ transfers' = Append(transfers,
                  [org |-> org, contact |-> k, team |-> tm,
                   status |-> "active", agent |-> ag,
                   transferred_at |-> clock, picks |-> 0])
            /\ replies' = Reply("create", org, "created", Len(transfers) + 1)
    /\ UNCHANGED <<clock, callVars, stopVars, mediaVars>>

\* A transfer the agent may pick: in the agent's organization, in the general
\* queue or in a team queue the agent belongs to.
VisibleAnyOrg(a, i) ==
    transfers[i].team = NoTeam \/ a \in Members(transfers[i].team)
Visible(a, i) ==
    /\ transfers[i].org = OrgOfAgent(a)
    /\ transfers[i].team = NoTeam \/ a \in Members(transfers[i].team)

\* The rows a pick chooses from: active, unassigned and visible.
CandidatesAnyAssignee(a) ==
    {i \in Ids : transfers[i].status = "active" /\ Visible(a, i)}
Candidates(a) ==
    {i \in Ids : /\ transfers[i].status = "active"
                 /\ transfers[i].agent = NoAgent
                 /\ Visible(a, i)}

\* ORDER BY transferred_at ASC, insertion order among equals.
Newest(S) ==
    CHOOSE i \in S : \A j \in S :
        \/ transfers[i].transferred_at > transfers[j].transferred_at
        \/ transfers[i].transferred_at = transfers[j].transferred_at /\ i >= j
Oldest(S) ==
    CHOOSE i \in S : \A j \in S :
        \/ transfers[i].transferred_at < transfers[j].transferred_at
        \/ transfers[i].transferred_at = transfers[j].transferred_at /\ i <= j

\* PickNextTransfer: one transaction; the oldest candidate is assigned to the
\* agent, or the queue is reported empty.
PickNextTransfer(a) ==
    /\ transfers # <<>>
    /\ IF Candidates(a) = {}
       THEN /\ replies' = Reply("pick", a, "empty", 0)
            /\ UNCHANGED transfers
       ELSE LET i == Oldest(Candidates(a)) IN
            /\ transfers' = [transfers EXCEPT ![i].agent = a,
                                              ![i].picks = @ + 1]
            /\ replies' = Reply("pick", a, "picked", i)
    /\ UNCHANGED <<clock, callVars, stopVars, mediaVars>>

\* ResumeFromTransfer with the status check left out.
ResumeAnyStatus(org, i) ==
    /\ i \in Ids
    /\ IF transfers[i].org # org
       THEN /\ replies' = Reply("resume", org, "not_found", i)
            /\ UNCHANGED transfers
       ELSE /\ transfers' = [transfers EXCEPT ![i].status = "resumed"]
            /\ replies' = Reply("resume", org, "resumed", i)
    /\ UNCHANGED <<clock, callVars, stopVars, mediaVars>>

\* ResumeFromTransfer: not found outside the organization, refused unless
\* active, else the row becomes resumed.
ResumeFromTransfer(org, i) ==
    /\ i \in Ids
    /\ IF transfers[i].org # org
       THEN /\ replies' = Reply("resume", org, "not_found", i)
            /\ UNCHANGED transfers
       ELSE IF transfers[i].status # "active"
       THEN /\ replies' = Reply("resume", org, "not_active", i)
            /\ UNCHANGED transfers
       ELSE /\ transfers' = [transfers EXCEPT ![i].status = "resumed"]
            /\ replies' = Reply("resume", org, "resumed", i)
    /\ UNCHANGED <<clock, callVars, stopVars, mediaVars>>

\* AssignAgentTransfer by an admin of the organization: not found outside the
\* organization, refused unless active, else the row goes to the agent.
AssignAgentTransfer(org, i, a) ==
    /\ i \in Ids
    /\ OrgOfAgent(a) = org
    /\ IF transfers[i].org # org
       THEN /\ replies' = Reply("assign", org, "not_found", i)
            /\ UNCHANGED transfers
       ELSE IF transfers[i].status # "active"
       THEN /\ replies' = Reply("assign", org, "not_active", i)
            /\ UNCHANGED transfers
       ELSE /\ transfers' = [transfers EXCEPT ![i].agent = a]
            /\ replies' = Reply("assign", org, "assigned", i)
    /\ UNCHANGED <<clock, callVars, stopVars, mediaVars>>

\* The active rows an agent holds in an organization.
HeldByAnyone(a, org) ==
    {i \in Ids : /\ transfers[i].org = org /\ transfers[i].status = "active"
                 /\ transfers[i].agent # NoAgent}
HeldBy(a, org) ==
    {i \in Ids : /\ transfers[i].org = org /\ transfers[i].status = "active"
                 /\ transfers[i].agent = a}

\* ReturnAgentTransfersToQueue: every row the agent holds loses its assignee
\* and counts as not handed out; the number of rows is returned.
ReturnAgentTransfersToQueue(a, org) ==
    /\ transfers # <<>>
    /\ OrgOfAgent(a) = org
    /\ transfers' = [i \in Ids |->
                        IF i \in HeldBy(a, org)
                        THEN [transfers[i] EXCEPT !.agent = NoAgent,
                                                  !.picks = 0]
                        ELSE transfers[i]]
    /\ replies' = [Reply("return", a, "returned", 0) EXCEPT
                      !.n = Cardinality(HeldBy(a, org)),
                      !.ids = HeldBy(a, org)]
    /\ UNCHANGED <<clock, callVars, stopVars, mediaVars>>

\* The rows a listing shows to a user of the organization.
Listed(org) == {i \in Ids : transfers[i].org = org}

\* ListAgentTransfers by an admin: the organization's transfers.
ListAgentTransfers(org) ==
    /\ transfers # <<>>
    /\ replies' = [Reply("list", org, "ok", 0) EXCEPT
                      !.n = Cardinality(Listed(org)), !.ids = Listed(org)]
    /\ UNCHANGED <<transfers, clock, callVars, stopVars, mediaVars>>

\* The queue as agents drain it: transfers arrive unassigned, over time, into
\* the general queue or a team queue.
NextQueue ==
    \/ Tick
    \/ \E org \in Orgs, k \in Contacts, tm \in Teams \cup {NoTeam} :
          CreateAgentTransfer(org, k, tm, NoAgent)
    \/ \E a \in Agents : PickNextTransfer(a)
    \/ \E org \in Orgs, i \in 1..MaxTransfers : ResumeFromTransfer(org, i)

\* Every handler of the general queue, with transfers created for a requested
\* agent or for none, at one instant.
NextQueueOps ==
    \/ \E org \in Orgs, k \in Contacts, ag \in Agents \cup {NoAgent} :
          CreateAgentTransfer(org, k, NoTeam, ag)
    \/ \E a \in Agents : PickNextTransfer(a)
    \/ \E org \in Orgs, i \in 1..MaxTransfers : ResumeFromTransfer(org, i)
    \/ \E org \in Orgs, i \in 1..MaxTransfers, a \in Agents :
          AssignAgentTransfer(org, i, a)
    \/ \E a \in Agents : ReturnAgentTransfersToQueue(a, OrgOfAgent(a))
    \/ \E org \in Orgs : ListAgentTransfers(org)

\* ----------------------------------------- audio drain and AudioBridge relay
\* The remote tracks the bridge reads, and the local track each is relayed to.
Srcs == {"callerRemote", "agentRemote"}
Dst(src) == IF src = "callerRemote" THEN "agentLocal" ELSE "callerLocal"

\* buf := make([]byte, 1500), scaled down; the packets a track may receive, one
\* of them longer than buf.
BufLen == 2
Packets == {<<1>>, <<2, 2>>, <<1, 2, 1>>}
ZeroBuf == [i \in 1..BufLen |-> 0]

NoForward == [pc |-> "none", buf |-> ZeroBuf, n |-> 0]

\* The session has its caller track and consumeAudioTrack is draining it; no
\* bridge has been started.
InitBridge ==
    /\ track = [src \in Srcs |-> <<>>]
    /\ arrived = [src \in Srcs |-> 0]
    /\ fwd = [src \in Srcs |-> NoForward]
    /\ readLog = [src \in Srcs |-> <<>>]
    /\ wroteLog = [src \in Srcs |-> <<>>]
    /\ wg = 0
    /\ starter = "none"
    /\ BridgeStarted = FALSE
    /\ drain = [pc |-> "select", late |-> 0]

\* The peer sends an RTP packet; the track queues it until it is read.
Arrive(src, pkt) ==
    /\ arrived[src] < MaxPackets
    /\ track' = [track EXCEPT ![src] = Append(@, pkt)]
    /\ arrived' = [arrived EXCEPT ![src] = @ + 1]
    /\ UNCHANGED <<fwd, readLog, wroteLog, wg, starter, BridgeStarted, drain,
                   nonBridgeVars>>

\* TrackRemote.Read(buf): the packet's bytes are copied to the front of buf,
\* the rest of buf keeps what it held.
Read(buf, pkt) ==
    [buf |-> [i \in 1..BufLen |-> IF i <= Len(pkt) THEN pkt[i] ELSE buf[i]],
     n |-> Len(pkt)]

\* consumeAudioTrack: select { case <-session.BridgeStarted: return; default: }
DrainSelect ==
    /\ drain.pc = "select"
    /\ drain' = [drain EXCEPT !.pc = IF BridgeStarted THEN "done" ELSE "read"]
    /\ UNCHANGED <<track, arrived, fwd, readLog, wroteLog, wg, starter,
                   BridgeStarted, nonBridgeVars>>

\* consumeAudioTrack: track.Read(buf) blocks for the next packet and discards
\* it; an error (closed track, packet longer than buf) ends the goroutine.
DrainRead(err) ==
    /\ drain.pc = "read"
    /\ IF err
       THEN /\ drain' = [drain EXCEPT !.pc = "done"]
            /\ UNCHANGED track
       ELSE /\ track["callerRemote"] # <<>>
            /\ track' = [track EXCEPT !["callerRemote"] = Tail(@)]
            /\ drain' = [pc |-> IF Len(Head(track["callerRemote"])) > BufLen
                                THEN "done" ELSE "select",
                         late |-> IF BridgeStarted THEN drain.late + 1
                                  ELSE drain.late]
    /\ UNCHANGED <<arrived, fwd, readLog, wroteLog, wg, starter, BridgeStarted,
                   nonBridgeVars>>

\* The transfer is connected: the bridge-started signal is closed and
\* the bridge is started in a goroutine of its own.
BridgeTakeOver ==
    /\ starter = "none"
    /\ BridgeStarted' = TRUE
    /\ starter' = "start"
    /\ UNCHANGED <<track, arrived, fwd, readLog, wroteLog, wg, drain,
                   nonBridgeVars>>

\* AudioBridge.Start: wg.Add(2) and the two `go b.forward(...)`.
Start ==
    /\ starter = "start"
    /\ wg' = 2
    /\ fwd' = [src \in Srcs |-> [NoForward EXCEPT !.pc = "select"]]
    /\ starter' = "wait"
    /\ UNCHANGED <<track, arrived, readLog, wroteLog, BridgeStarted, drain,
                   nonBridgeVars>>

\* AudioBridge.Start: b.wg.Wait() returns once the counter is zero.
StartReturn ==
    /\ starter = "wait"
    /\ wg = 0
    /\ starter' = "returned"
    /\ UNCHANGED <<track, arrived, fwd, readLog, wroteLog, wg, BridgeStarted,
                   drain, nonBridgeVars>>

\* forward returns: the deferred b.wg.Done().
ForwardExit(src) ==
    /\ fwd' = [fwd EXCEPT ![src].pc = "done"]
    /\ wg' = wg - 1

\* forward: select { case <-b.stop: return; default: }
ForwardSelect(src) ==
    /\ fwd[src].pc = "select"
    /\ IF stopCh["bridge"].closed
       THEN ForwardExit(src)
       ELSE fwd' = [fwd EXCEPT ![src].pc = "read"] /\ UNCHANGED wg
    /\ UNCHANGED <<track, arrived, readLog, wroteLog, starter, BridgeStarted,
                   drain, nonBridgeVars>>

\* forward: n, _, err := src.Read(buf) blocks for the next packet; on an error
\* (closed track, packet longer than buf) the goroutine returns.
ForwardRead(src, err) ==
    /\ fwd[src].pc = "read"
    /\ IF err
       THEN ForwardExit(src) /\ UNCHANGED <<track, readLog>>
       ELSE /\ track[src] # <<>>
            /\ track' = [track EXCEPT ![src] = Tail(@)]
            /\ LET pkt == Head(track[src]) IN
                IF Len(pkt) > BufLen
                THEN ForwardExit(src) /\ UNCHANGED readLog
                ELSE /\ fwd' = [fwd EXCEPT ![src] =
                                   [pc |-> "write",
                                    buf |-> Read(fwd[src].buf, pkt).buf,
                                    n |-> Read(fwd[src].buf, pkt).n]]
                     /\ readLog' = [readLog EXCEPT ![src] = Append(@, pkt)]
                     /\ UNCHANGED wg
    /\ UNCHANGED <<arrived, wroteLog, starter, BridgeStarted, drain,
                   nonBridgeVars>>

\* forward writing the whole buffer rather than the n bytes read.
ForwardWriteWholeBuf(src, err) ==
    /\ fwd[src].pc = "write"
    /\ IF err
       THEN ForwardExit(src) /\ UNCHANGED wroteLog
       ELSE /\ wroteLog' = [wroteLog EXCEPT ![src] = Append(@, fwd[src].buf)]
            /\ fwd' = [fwd EXCEPT ![src].pc = "select"]
            /\ UNCHANGED wg
    /\ UNCHANGED <<track, arrived, readLog, starter, BridgeStarted, drain,
                   nonBridgeVars>>

\* forward: dst.Write(buf[:n]); on an error the goroutine returns.
ForwardWrite(src, err) ==
    /\ fwd[src].pc = "write"
    /\ IF err
       THEN ForwardExit(src) /\ UNCHANGED wroteLog
       ELSE /\ wroteLog' = [wroteLog EXCEPT ![src] =
                               Append(@, SubSeq(fwd[src].buf, 1, fwd[src].n))]
            /\ fwd' = [fwd EXCEPT ![src].pc = "select"]
            /\ UNCHANGED wg
    /\ UNCHANGED <<track, arrived, readLog, starter, BridgeStarted, drain,
                   nonBridgeVars>>

\* Stop, called by one goroutine: select { case <-stop: default: close(stop) }.
\* A call that finds the channel closed changes nothing.
Stop(o) ==
    /\ ~stopCh[o].closed
    /\ stopCh' = [stopCh EXCEPT ![o] =
                      [closed |-> TRUE, closes |-> @.closes + 1]]
    /\ UNCHANGED <<stopper, callVars, queueVars, mediaVars>>

\* The drain and the bridge of one session.
NextBridge ==
    \/ \E src \in Srcs, pkt \in Packets : Arrive(src, pkt)
    \/ DrainSelect
    \/ \E err \in BOOLEAN : DrainRead(err)
    \/ BridgeTakeOver
    \/ Start
    \/ StartReturn
    \/ \E src \in Srcs : ForwardSelect(src)
    \/ \E src \in Srcs, err \in BOOLEAN : ForwardRead(src, err)
    \/ \E src \in Srcs, err \in BOOLEAN : ForwardWrite(src, err)
    \/ Stop("bridge")

\* ------------------------------------------------- registry under Manager.mu
NoCaller == [pc |-> "idle", got |-> NoSession, calls |-> 0]
Unlocked == [w |-> NoHolder, r |-> {}]

InitReg ==
    /\ mmu = Unlocked
    /\ caller = [t \in Threads |-> NoCaller]

Free(t) == caller[t].pc = "idle" /\ proc[Thr(t)].pc = "idle"

\* m.mu.Lock() waits for the writer and every reader to leave.
Lock(t, at) ==
    /\ mmu = Unlocked
    /\ mmu' = [mmu EXCEPT !.w = Thr(t)]
    /\ caller' = [caller EXCEPT ![t].pc = at]

\* HandleIncomingCall: m.mu.Lock().
RegisterLock(t) ==
    /\ Alive /\ Free(t)
    /\ nextSess \in SessIds
    /\ Lock(t, "hicMap")
    /\ UNCHANGED <<callVars, stopVars, queueVars, bridgeVars, dtmfVars,
                   playVars, adminVars>>

\* HandleIncomingCall: m.sessions[session.ID] = session; m.mu.Unlock(); with
\* an SDP offer the negotiation goroutine is started.
RegisterSetOffer(t, hasSdp) ==
    /\ Alive /\ caller[t].pc = "hicMap"
    /\ HandleIncomingCall(nextSess, hasSdp, FALSE)
    /\ nextSess' = nextSess + 1
    /\ mmu' = Unlocked
    /\ caller' = [caller EXCEPT ![t].pc = "idle"]
    /\ UNCHANGED <<smu, provider, callLog, xfer, spawned, crashed, stopVars,
                   queueVars, bridgeVars, dtmfVars, playVars,
                   adminVars>>

\* The call carries no SDP offer.
RegisterSet(t) == RegisterSetOffer(t, FALSE)

\* GetSession: m.mu.RLock() waits for the writer to leave.
GetSessionRLock(t) ==
    /\ Alive /\ Free(t)
    /\ caller[t].calls < MaxGets
    /\ mmu.w = NoHolder
    /\ mmu' = [mmu EXCEPT !.r = @ \cup {Thr(t)}]
    /\ caller' = [caller EXCEPT ![t].pc = "gsMap", ![t].calls = @ + 1]
    /\ UNCHANGED <<callVars, stopVars, queueVars, bridgeVars, dtmfVars,
                   playVars, adminVars>>

\* GetSession: return m.sessions[callID], then the deferred m.mu.RUnlock().
GetSession(t) ==
    /\ Alive /\ caller[t].pc = "gsMap"
    /\ caller' = [caller EXCEPT ![t].pc = "idle",
                                ![t].got = sessions[TheCall]]
    /\ mmu' = [mmu EXCEPT !.r = @ \ {Thr(t)}]
    /\ UNCHANGED <<callVars, stopVars, queueVars, bridgeVars, dtmfVars,
                   playVars, adminVars>>

\* EndCall -> cleanupSession: m.mu.Lock().
CleanupMuLock(t) ==
    /\ Alive /\ Free(t)
    /\ nextSess > 1
    /\ Lock(t, "clMap")
    /\ UNCHANGED <<callVars, stopVars, queueVars, bridgeVars, dtmfVars,
                   playVars, adminVars>>

\* cleanupSession with m.mu.Unlock() deferred to the end of the function.
CleanupMapDeleteDeferUnlock(t) ==
    /\ Alive /\ caller[t].pc = "clMap"
    /\ LET s == sessions[TheCall] IN
        IF s # NoSession
        THEN /\ sessions' = [sessions EXCEPT ![TheCall] = NoSession]
             /\ sess' = [sess EXCEPT ![s].removed = TRUE]
             /\ proc' = [proc EXCEPT ![Thr(t)].pc = "clLock",
                                     ![Thr(t)].cs = s]
             /\ UNCHANGED mmu
        ELSE /\ mmu' = Unlocked
             /\ UNCHANGED <<sessions, sess, proc>>
    /\ caller' = [caller EXCEPT ![t].pc = "idle"]
    /\ UNCHANGED <<smu, provider, callLog, xfer, spawned, nextSess, crashed,
                   stopVars, queueVars, bridgeVars, dtmfVars, playVars,
                   adminVars>>

\* cleanupSession: look the call ID up and delete it, m.mu.Unlock(), return
\* when it was absent; otherwise go on to session.mu.Lock().
CleanupMapDelete(t) ==
    /\ Alive /\ caller[t].pc = "clMap"
    /\ LET s == sessions[TheCall] IN
        IF s # NoSession
        THEN /\ sessions' = [sessions EXCEPT ![TheCall] = NoSession]
             /\ sess' = [sess EXCEPT ![s].removed = TRUE]
             /\ proc' = [proc EXCEPT ![Thr(t)].pc = "clLock",
                                     ![Thr(t)].cs = s]
        ELSE UNCHANGED <<sessions, sess, proc>>
    /\ mmu' = Unlocked
    /\ caller' = [caller EXCEPT ![t].pc = "idle"]
    /\ UNCHANGED <<smu, provider, callLog, xfer, spawned, nextSess, crashed,
                   stopVars, queueVars, bridgeVars, dtmfVars, playVars,
                   adminVars>>

\* HandleCallEvent: m.mu.RLock().
EventRLock(t, ev) ==
    /\ Alive /\ Free(t)
    /\ nextSess > 1
    /\ spawned < MaxSpawned
    /\ mmu.w = NoHolder
    /\ mmu' = [mmu EXCEPT !.r = @ \cup {Thr(t)}]
    /\ caller' = [caller EXCEPT ![t].pc = "evMap"]
    /\ proc' = [proc EXCEPT ![Thr(t)].ev = ev]
    /\ UNCHANGED <<sessions, sess, smu, provider, callLog, xfer, spawned,
                   nextSess, crashed, stopVars, queueVars, bridgeVars,
                   dtmfVars, playVars, adminVars>>

\* HandleCallEvent with m.mu.RUnlock() deferred to the end of the function.
EventLookupDeferRUnlock(t) ==
    /\ Alive /\ caller[t].pc = "evMap"
    /\ LET s == sessions[TheCall] IN
        IF s = NoSession
        THEN /\ proc' = [proc EXCEPT ![Thr(t)] = IdleProc]
             /\ mmu' = [mmu EXCEPT !.r = @ \ {Thr(t)}]
        ELSE /\ proc' = [proc EXCEPT ![Thr(t)].pc = "evLock",
                                     ![Thr(t)].cs = s]
             /\ UNCHANGED mmu
    /\ caller' = [caller EXCEPT ![t].pc = "idle"]
    /\ UNCHANGED <<sessions, sess, smu, provider, callLog, xfer, spawned,
                   nextSess, crashed, stopVars, queueVars, bridgeVars,
                   dtmfVars, playVars, adminVars>>

\* HandleCallEvent: session, exists := m.sessions[callID]; m.mu.RUnlock();
\* return when absent, otherwise go on to session.mu.Lock().
EventLookup(t) ==
    /\ Alive /\ caller[t].pc = "evMap"
    /\ LET s == sessions[TheCall] IN
        proc' = [proc EXCEPT ![Thr(t)] =
                    IF s = NoSession THEN IdleProc
                    ELSE [pc |-> "evLock", cs |-> s, ev |-> proc[Thr(t)].ev,
                          ret |-> "idle"]]
    /\ mmu' = [mmu EXCEPT !.r = @ \ {Thr(t)}]
    /\ caller' = [caller EXCEPT ![t].pc = "idle"]
    /\ UNCHANGED <<sessions, sess, smu, provider, callLog, xfer, spawned,
                   nextSess, crashed, stopVars, queueVars, bridgeVars,
                   dtmfVars, playVars, adminVars>>

\* A goroutine started by `go m.cleanupSession(callID)`: m.mu.Lock().
SpawnedMuLock(t) ==
    /\ Alive /\ Free(t)
    /\ spawned > 0
    /\ spawned' = spawned - 1
    /\ Lock(t, "clMap")
    /\ UNCHANGED <<sessions, sess, smu, proc, provider, callLog, xfer,
                   nextSess, crashed, stopVars, queueVars, bridgeVars,
                   dtmfVars, playVars, adminVars>>

\* Calls registered (also twice under one call ID), looked up and cleaned up
\* by concurrent goroutines.
NextReg ==
    \/ \E t \in Threads : RegisterLock(t)
    \/ \E t \in Threads : RegisterSet(t)
    \/ \E t \in Threads : GetSessionRLock(t)
    \/ \E t \in Threads : GetSession(t)
    \/ \E t \in Threads : CleanupMuLock(t)
    \/ \E t \in Threads : CleanupMapDelete(t)
    \/ \E g \in Procs : CleanupLock(g)
    \/ \E g \in Procs : CleanupTeardown(g)

\* Every operation that takes the registry lock or a session lock, by
\* concurrent goroutines: HandleIncomingCall, GetSession, EndCall and the
\* connection-state callback (cleanupSession), HandleCallEvent with its
\* transfer branch, and the negotiation's writes under session.mu. The call
\* is registered once.
NextLocks ==
    \/ \E t \in Threads : nextSess = 1 /\ RegisterLock(t)
    \/ \E t \in Threads, hasSdp \in BOOLEAN : RegisterSetOffer(t, hasSdp)
    \/ \E t \in Threads : GetSessionRLock(t)
    \/ \E t \in Threads : GetSession(t)
    \/ \E t \in Threads : CleanupMuLock(t)
    \/ \E t \in Threads : SpawnedMuLock(t)
    \/ \E t \in Threads : CleanupMapDelete(t)
    \/ \E g \in Procs : CleanupLock(g)
    \/ \E g \in Procs : CleanupTeardown(g)
    \/ \E t \in Threads, ev \in Events : EventRLock(t, ev)
    \/ \E t \in Threads : EventLookup(t)
    \/ \E t \in Threads : EventSwitch(t)
    \/ \E t \in Threads : EventHangup(t)
    \/ \E t \in Threads : EventReturn(t)
    \/ \E s \in SessIds : RequestTransfer(s)
    \/ \E s \in SessIds, ok \in BOOLEAN : NegCreatePC(s, ok)
    \/ \E s \in SessIds, ok \in BOOLEAN : NegTrack(s, ok)

\* ------------------------------------------------------------ DTMF channel
\* DTMFBuffer: make(chan byte, 32).
DTMFCap == 32

\* The digit the k-th telephone event of the call decodes to.
Digit(k) == k % 10

InitDtmf ==
    /\ dtmf = <<>>
    /\ dtmfLoop = [pc |-> "read", events |-> 0, digit |-> 0, dropped |-> 0]
    /\ dtmfClosed = FALSE

\* What the steps of this part leave alone besides the channel, the loop and
\* the state of the process.
dtmfFrame == <<sessions, sess, smu, proc, provider, callLog, xfer, spawned,
               nextSess, stopVars, queueVars, bridgeVars, regVars, playVars,
               adminVars>>

\* The read loop runs until the session's DTMF channel is closed or the track
\* errs out: the track delivers the next telephone event and the loop decodes
\* its digit. Once cleanupSession has closed the peer connection the read
\* fails.
DtmfRead(err) ==
    /\ Alive /\ dtmfLoop.pc = "read"
    /\ dtmfLoop.events < MaxEvents
    /\ dtmfClosed => err
    /\ dtmfLoop' =
          IF err THEN [dtmfLoop EXCEPT !.pc = "done"]
          ELSE [dtmfLoop EXCEPT !.pc = "push", !.events = @ + 1,
                                !.digit = Digit(dtmfLoop.events + 1)]
    /\ UNCHANGED <<dtmf, dtmfClosed, crashed, dtmfFrame>>

\* The digit sent with a blocking send: the loop waits for room.
DtmfPushBlocking ==
    /\ Alive /\ dtmfLoop.pc = "push"
    /\ Len(dtmf) < DTMFCap
    /\ dtmf' = Append(dtmf, dtmfLoop.digit)
    /\ dtmfLoop' = [dtmfLoop EXCEPT !.pc = "read"]
    /\ UNCHANGED <<dtmfClosed, crashed, dtmfFrame>>

\* The digit is pushed without blocking: select { case DTMFBuffer <- digit:
\* default: (dropped) }. A send on a closed channel panics.
DtmfPush ==
    /\ Alive /\ dtmfLoop.pc = "push"
    /\ IF dtmfClosed
       THEN /\ crashed' = "panic: send on closed channel"
            /\ UNCHANGED <<dtmf, dtmfLoop>>
       ELSE IF Len(dtmf) < DTMFCap
       THEN /\ dtmf' = Append(dtmf, dtmfLoop.digit)
            /\ dtmfLoop' = [dtmfLoop EXCEPT !.pc = "read"]
            /\ UNCHANGED crashed
       ELSE /\ dtmf' = dtmf
            /\ dtmfLoop' = [dtmfLoop EXCEPT !.pc = "read", !.dropped = @ + 1]
            /\ UNCHANGED crashed
    /\ UNCHANGED <<dtmfClosed, dtmfFrame>>

\* The IVR receives the oldest buffered digit.
DtmfReceive ==
    /\ Alive /\ dtmf # <<>>
    /\ dtmf' = Tail(dtmf)
    /\ UNCHANGED <<dtmfLoop, dtmfClosed, crashed, dtmfFrame>>

\* cleanupSession, under session.mu: the peer connection is closed, then
\* close(session.DTMFBuffer).
DtmfCleanup ==
    /\ Alive /\ ~dtmfClosed
    /\ dtmfClosed' = TRUE
    /\ UNCHANGED <<dtmf, dtmfLoop, crashed, dtmfFrame>>

NextDtmf ==
    \/ \E err \in BOOLEAN : DtmfRead(err)
    \/ DtmfPush
    \/ DtmfReceive

\* The DTMF loop of a call that cleanupSession ends.
NextDtmfClose ==
    \/ NextDtmf
    \/ DtmfCleanup

\* ------------------------------------------------------------- AudioPlayer
\* const samplesPerFrame = 960; var sequenceNumber uint16.
SamplesPerFrame == 960
SeqMod == 65536

OpusHead == <<"O", "p", "u", "s", "H", "e", "a", "d">>
OpusTags == <<"O", "p", "u", "s", "T", "a", "g", "s">>

\* isOpusHeader: len(payload) >= 8 and the first 8 bytes are OpusHead or
\* OpusTags.
isOpusHeader(payload) ==
    IF Len(payload) < 8 THEN FALSE
    ELSE SubSeq(payload, 1, 8) \in {OpusHead, OpusTags}

\* OGG files: the number of pages and the positions of the header pages. Short
\* files with no header, with the two headers in front, or with a header page
\* after an audio page; one file long enough for the sequence number to wrap.
Files ==
    {[len |-> n, hdr |-> h] : n \in 0..3, h \in {{}, {1, 2}, {2}}}
        \cup {[len |-> MaxPages, hdr |-> {1, 2}]}
ShortFiles == {f \in Files : f.len <= 3}
NoFile == [len |-> 0, hdr |-> {}]

\* The payload of the file's i-th page: a header page starts with OpusHead or
\* OpusTags; audio pages are shorter than 8 bytes or start otherwise.
PageAt(f, i) ==
    IF i \in f.hdr
    THEN (IF i = 1 THEN OpusHead ELSE OpusTags) \o <<1, i % 2>>
    ELSE IF i % 2 = 0 THEN <<"O", "p", "u", "s">>
    ELSE <<"O", "p", "u", "s", "H", "e", "a", "p", i % 3>>

NoPlayer == [pc |-> "idle", file |-> NoFile, loop |-> FALSE, pos |-> 0,
             sequenceNumber |-> 0, timestamp |-> 0, result |-> "none"]
\* The packets WriteRTP received in the current PlayFile call: how many, and
\* the last one.
NoRtp == [n |-> 0, SequenceNumber |-> 0, Timestamp |-> 0, Payload |-> <<>>]

InitPlay ==
    /\ player = NoPlayer
    /\ rtp = NoRtp

\* A goroutine calls PlayFile(filePath).
PlayFile(f) ==
    /\ player.pc = "idle"
    /\ player' = [NoPlayer EXCEPT !.pc = "open", !.file = f]
    /\ UNCHANGED <<rtp, nonPlayVars>>

\* A goroutine calls PlayFileLoop(filePath): for { PlayFile(filePath) ... }.
PlayFileLoop(f) ==
    /\ player.pc = "idle"
    /\ player' = [NoPlayer EXCEPT !.pc = "open", !.file = f, !.loop = TRUE]
    /\ UNCHANGED <<rtp, nonPlayVars>>

\* PlayFile returns: to its caller, or to PlayFileLoop, which returns an
\* error at once and otherwise goes to its stop check.
Return(result) ==
    IF player.loop /\ result = "nil"
    THEN [player EXCEPT !.pc = "loopCheck"]
    ELSE [player EXCEPT !.pc = "returned", !.result = result]

\* PlayFile: os.Open and oggreader.NewWith; the counters start at zero.
PlayOpen(ok) ==
    /\ player.pc = "open"
    /\ player' = IF ok
                 THEN [player EXCEPT !.pc = "tick", !.pos = 0,
                                     !.sequenceNumber = 0, !.timestamp = 0]
                 ELSE Return("error")
    /\ rtp' = NoRtp
    /\ UNCHANGED nonPlayVars

\* PlayFile: select, case <-p.stop: return nil.
PlayStop ==
    /\ player.pc = "tick"
    /\ stopCh["player"].closed
    /\ player' = Return("nil")
    /\ UNCHANGED <<rtp, nonPlayVars>>

\* The tick with the counters also advanced on a header page.
PlayPageCountsHeaders(parseErr, writeErr) ==
    /\ player.pc = "tick"
    /\ LET f == player.file
           i == player.pos + 1
       IN
        IF player.pos = f.len
        THEN player' = Return("nil") /\ UNCHANGED rtp
        ELSE IF parseErr
        THEN player' = Return("error") /\ UNCHANGED rtp
        ELSE IF isOpusHeader(PageAt(f, i))
        THEN /\ player' = [player EXCEPT !.pos = i,
                  !.sequenceNumber = (@ + 1) % SeqMod,
                  !.timestamp = @ + SamplesPerFrame]
             /\ UNCHANGED rtp
        ELSE IF writeErr
        THEN player' = Return("error") /\ UNCHANGED rtp
        ELSE /\ rtp' = [n |-> rtp.n + 1,
                        SequenceNumber |-> player.sequenceNumber,
                        Timestamp |-> player.timestamp,
                        Payload |-> PageAt(f, i)]
             /\ player' = [player EXCEPT !.pos = i,
                  !.sequenceNumber = (@ + 1) % SeqMod,
                  !.timestamp = @ + SamplesPerFrame]
    /\ UNCHANGED nonPlayVars

\* PlayFile: select, case <-ticker.C: ParseNextPage (io.EOF returns nil, another
\* error returns it), header pages skipped, an audio page sent by WriteRTP
\* with the current counters, then sequenceNumber++ and timestamp += 960.
PlayPage(parseErr, writeErr) ==
    /\ player.pc = "tick"
    /\ LET f == player.file
           i == player.pos + 1
       IN
        IF player.pos = f.len
        THEN player' = Return("nil") /\ UNCHANGED rtp
        ELSE IF parseErr
        THEN player' = Return("error") /\ UNCHANGED rtp
        ELSE IF isOpusHeader(PageAt(f, i))
        THEN player' = [player EXCEPT !.pos = i] /\ UNCHANGED rtp
        ELSE IF writeErr
        THEN player' = Return("error") /\ UNCHANGED rtp
        ELSE /\ rtp' = [n |-> rtp.n + 1,
                        SequenceNumber |-> player.sequenceNumber,
                        Timestamp |-> player.timestamp,
                        Payload |-> PageAt(f, i)]
             /\ player' = [player EXCEPT !.pos = i,
                  !.sequenceNumber = (@ + 1) % SeqMod,
                  !.timestamp = @ + SamplesPerFrame]
    /\ UNCHANGED nonPlayVars

\* PlayFileLoop without the stop check between iterations.
LoopCheckNoStop ==
    /\ player.pc = "loopCheck"
    /\ player' = [player EXCEPT !.pc = "open"]
    /\ UNCHANGED <<rtp, nonPlayVars>>

\* PlayFileLoop: select { case <-p.stop: return nil; default: } and the next
\* iteration.
LoopCheck ==
    /\ player.pc = "loopCheck"
    /\ player' = IF stopCh["player"].closed
                 THEN [player EXCEPT !.pc = "returned", !.result = "nil"]
                 ELSE [player EXCEPT !.pc = "open"]
    /\ UNCHANGED <<rtp, nonPlayVars>>

\* One PlayFile call.
NextPlay ==
    \/ \E f \in Files : PlayFile(f)
    \/ \E ok \in BOOLEAN : PlayOpen(ok)
    \/ PlayStop
    \/ \E parseErr, writeErr \in BOOLEAN : PlayPage(parseErr, writeErr)
    \/ Stop("player")

\* One PlayFileLoop call.
NextLoop ==
    \/ \E f \in ShortFiles : PlayFileLoop(f)
    \/ \E ok \in BOOLEAN : PlayOpen(ok)
    \/ PlayStop
    \/ \E parseErr, writeErr \in BOOLEAN : PlayPage(parseErr, writeErr)
    \/ LoopCheck
    \/ Stop("player")

\* ---------------------------------------------------------- IVR interpreter
\* The menu tree of the call's flow, three levels deep: node 1 is the root,
\* node 2 its submenu, node 3 the submenu of node 2.
IvrNodes == {1, 2, 3}
Root == 1
Opt(action, menu) == [action |-> action, menu |-> menu]

\* IVRMenuNode.Options: digit -> IVROption.
Options(n) ==
    IF n = 1
    THEN [d \in {0, 1, 2, 3, 9} |->
            CASE d = 0 -> Opt("parent", 0) [] d = 1 -> Opt("submenu", 2)
              [] d = 2 -> Opt("transfer", 0) [] d = 3 -> Opt("repeat", 0)
              [] d = 9 -> Opt("hangup", 0)]
    ELSE IF n = 2
    THEN [d \in {0, 1, 4} |->
            CASE d = 0 -> Opt("parent", 0) [] d = 1 -> Opt("submenu", 3)
              [] d = 4 -> Opt("goto_flow", 0)]
    ELSE [d \in {0, 2, 3} |->
            CASE d = 0 -> Opt("parent", 0) [] d = 2 -> Opt("transfer", 0)
              [] d = 3 -> Opt("repeat", 0)]

\* IVRMenuNode.Parent, rebuilt at load time; the root has none.
Parent(n) == IF n = Root THEN Root ELSE n - 1

\* IVRMenuNode.MaxRetries of each node.
MaxRetriesOf(n) == 3 - n

\* The digits a caller can press; 5 is mapped in no node. In the interpreter's
\* record `last` is the digit just handled, -1 for none or a timeout.
Keys == {0, 1, 2, 3, 4, 5, 9}

Greeting(n) == <<"greeting", n>>
InvalidInputMessage(n) == <<"invalid", n>>

\* The IVR starts at the root and plays its greeting.
InitIvr ==
    ivr = [node |-> Root, retries |-> 0, mode |-> "ivr",
           played |-> Greeting(Root), fallback |-> FALSE, digits |-> 0,
           last |-> -1]

\* Invalid input without counting the retry.
InvalidInputNoCount(r) ==
    [r EXCEPT !.played = InvalidInputMessage(r.node)]

\* A digit the node does not map, or no digit before the node's timeout: the
\* node's invalid-input message is played and the retry counter incremented;
\* beyond the node's max-retries the call falls back to a transfer to the
\* general queue and leaves the IVR.
InvalidInput(r) ==
    LET n == r.retries + 1 IN
        [r EXCEPT !.played = InvalidInputMessage(r.node), !.retries = n,
                  !.mode = IF n > MaxRetriesOf(r.node) THEN "transfer" ELSE @,
                  !.fallback = n > MaxRetriesOf(r.node)]

\* A mapped digit, dispatched by the option's action.
Dispatch(r, o) ==
    CASE o.action = "transfer" -> [r EXCEPT !.mode = "transfer"]
      [] o.action = "submenu" ->
            [r EXCEPT !.node = o.menu, !.retries = 0,
                      !.played = Greeting(o.menu)]
      [] o.action = "repeat" -> [r EXCEPT !.played = Greeting(r.node)]
      [] o.action = "parent" -> [r EXCEPT !.node = Parent(r.node)]
      [] o.action = "hangup" -> [r EXCEPT !.mode = "hangup"]
      [] o.action = "goto_flow" -> [r EXCEPT !.mode = "flow"]

\* One digit received from the DTMF channel while in IVR mode.
IvrDigit(d) ==
    /\ ivr.mode = "ivr"
    /\ ivr.digits < MaxDigits
    /\ LET r == [ivr EXCEPT !.digits = @ + 1, !.last = d] IN
        ivr' = IF d \in DOMAIN Options(ivr.node)
               THEN Dispatch(r, Options(ivr.node)[d])
               ELSE InvalidInput(r)
    /\ UNCHANGED <<nonAdminVars, permVars, flowVars>>

\* No digit arrives within the node's timeout window.
IvrTimeout ==
    /\ ivr.mode = "ivr"
    /\ ivr.digits < MaxDigits
    /\ ivr' = InvalidInput([ivr EXCEPT !.digits = @ + 1, !.last = -1])
    /\ UNCHANGED <<nonAdminVars, permVars, flowVars>>

NextIvr ==
    \/ \E d \in Keys : IvrDigit(d)
    \/ IvrTimeout

\* ---------------------------------------------------------- call permission
\* 72*time.Hour: an accepted permission is valid for 72 hours from the
\* consumer's response.
ExpiryHours == 72

\* Hours the clock moves between two requests.
Steps == {24, 25}

\* A CallPermission row's RespondedAt when it is nil.
NoTime == -1

NoPermReply == [code |-> 0, status |-> "none", row |-> 0, at |-> 0,
                RespondedAt |-> NoTime]

InitPerm ==
    /\ permissions = <<>>
    /\ hours = 0
    /\ permReply = NoPermReply

\* time.Now() moves on.
Advance(h) ==
    /\ hours + h <= MaxHours
    /\ hours' = hours + h
    /\ UNCHANGED <<permissions, permReply, nonAdminVars, ivrVars, flowVars>>

\* SendCallPermissionRequest: the contact must belong to the organization;
\* the consent message is sent and a pending row created.
SendCallPermissionRequest(org, k) ==
    /\ Len(permissions) < MaxPerms
    /\ OrgOfContact(k) = org
    /\ permissions' = Append(permissions,
            [org |-> org, contact |-> k, Status |-> "pending",
             RespondedAt |-> NoTime])
    /\ UNCHANGED <<hours, permReply, nonAdminVars, ivrVars, flowVars>>

\* The consumer accepts the request: the row becomes accepted, responded now.
Respond(i) ==
    /\ i \in DOMAIN permissions
    /\ permissions[i].Status = "pending"
    /\ permissions' = [permissions EXCEPT ![i].Status = "accepted",
                                          ![i].RespondedAt = hours]
    /\ UNCHANGED <<hours, permReply, nonAdminVars, ivrVars, flowVars>>

\* Where("organization_id = ? AND contact_id = ?").Order("created_at DESC")
\* .First: the newest row of the contact in the organization, 0 for none.
LatestPermission(org, k) ==
    LET S == {i \in DOMAIN permissions :
                permissions[i].org = org /\ permissions[i].contact = k}
    IN IF S = {} THEN 0 ELSE CHOOSE i \in S : \A j \in S : j <= i

\* The expiry check left out.
ExpireNever(p, now) == p

\* if Status == accepted && RespondedAt != nil && time.Since(*RespondedAt) >
\* 72*time.Hour: Status = expired.
Expire(p, now) ==
    IF /\ p.Status = "accepted"
       /\ p.RespondedAt # NoTime
       /\ now - p.RespondedAt > ExpiryHours
    THEN [p EXCEPT !.Status = "expired"]
    ELSE p

\* GetCallPermission: 404 without a row; otherwise the row, after the expiry
\* check and its Update("status", expired), is the response.
GetCallPermission(org, k) ==
    /\ LET i == LatestPermission(org, k) IN
        IF i = 0
        THEN /\ permReply' = [NoPermReply EXCEPT !.code = 404, !.at = hours]
             /\ UNCHANGED permissions
        ELSE LET p == Expire(permissions[i], hours) IN
             /\ permissions' = [permissions EXCEPT ![i] = p]
             /\ permReply' = [code |-> 200, status |-> p.Status, row |-> i,
                              at |-> hours, RespondedAt |-> p.RespondedAt]
    /\ UNCHANGED <<hours, nonAdminVars, ivrVars, flowVars>>

NextPerm ==
    \/ \E h \in Steps : Advance(h)
    \/ \E org \in Orgs, k \in Contacts : SendCallPermissionRequest(org, k)
    \/ \E i \in 1..MaxPerms : Respond(i)
    \/ \E org \in Orgs, k \in Contacts : GetCallPermission(org, k)

\* ---------------------------------------------------------------- IVR flows
\* The WhatsApp accounts of an organization, by name; a request that names no
\* account carries "".
Accounts == {"w1", "w2"}
NoAccount == ""

InitFlows == flows = <<>>

\* Update("is_active", false) of the live rows matching organization, account
\* and is_active = true, except row `but`.
Deactivate(rows, org, account, but) ==
    [i \in DOMAIN rows |->
        IF /\ i # but
           /\ ~rows[i].deleted
           /\ rows[i].org = org
           /\ rows[i].account = account
           /\ rows[i].active
        THEN [rows[i] EXCEPT !.active = FALSE]
        ELSE rows[i]]

\* CreateIVRFlow: an account is required; an active flow first deactivates the
\* active flows of the same account, then the row is created.
CreateIVRFlow(org, account, IsActive) ==
    /\ Len(flows) < MaxFlows
    /\ account # NoAccount
    /\ flows' = Append(IF IsActive THEN Deactivate(flows, org, account, 0)
                       ELSE flows,
                       [org |-> org, account |-> account, active |-> IsActive,
                        deleted |-> FALSE])
    /\ UNCHANGED <<nonAdminVars, ivrVars, permVars>>

\* findByIDAndOrg: the live row with the ID in the organization.
Found(i, org) ==
    i \in DOMAIN flows /\ flows[i].org = org /\ ~flows[i].deleted

\* UpdateIVRFlow: when the request activates a flow that was inactive, the
\* active flows of the account the flow has so far are deactivated; then
\* is_active and, if the request names one, whatsapp_account are written.
UpdateIVRFlow(org, i, account, IsActive) ==
    /\ Found(i, org)
    /\ LET rows == IF IsActive /\ ~flows[i].active
                   THEN Deactivate(flows, org, flows[i].account, i)
                   ELSE flows
       IN flows' = [rows EXCEPT ![i].active = IsActive,
                                ![i].account = IF account # NoAccount
                                               THEN account ELSE @]
    /\ UNCHANGED <<nonAdminVars, ivrVars, permVars>>

\* DeleteIVRFlow: the row is soft-deleted.
DeleteIVRFlow(org, i) ==
    /\ Found(i, org)
    /\ flows' = [flows EXCEPT ![i].deleted = TRUE]
    /\ UNCHANGED <<nonAdminVars, ivrVars, permVars>>

\* processCallWebhook "ringing": the flows First may attach to a call of the
\* account (is_active = true AND deleted_at IS NULL).
ActiveFlows(org, account) ==
    {i \in DOMAIN flows : /\ flows[i].org = org /\ flows[i].account = account
                          /\ flows[i].active /\ ~flows[i].deleted}

NextFlows ==
    \/ \E org \in Orgs, account \in Accounts, IsActive \in BOOLEAN :
            CreateIVRFlow(org, account, IsActive)
    \/ \E org \in Orgs, i \in 1..MaxFlows, account \in Accounts \cup {NoAccount},
          IsActive \in BOOLEAN : UpdateIVRFlow(org, i, account, IsActive)
    \/ \E org \in Orgs, i \in 1..MaxFlows : DeleteIVRFlow(org, i)

\* ------------------------------------------------------------ specification


\* A specification that does not follow the bridge, the registry lock, the
\* DTMF loop or the player has no such object: its variables are off.
NoBridge ==
    /\ track = "off" /\ arrived = "off" /\ fwd = "off" /\ readLog = "off"
    /\ wroteLog = "off" /\ wg = "off" /\ starter = "off"
    /\ BridgeStarted = "off" /\ drain = "off"
NoReg == mmu = "off" /\ caller = "off"
NoDtmf == dtmf = "off" /\ dtmfLoop = "off" /\ dtmfClosed = "off"
NoPlay == player = "off" /\ rtp = "off"
NoIvr == ivr = "off"
NoPerm == permissions = "off" /\ hours = "off" /\ permReply = "off"
NoFlows == flows = "off"
NoAdmin == NoIvr /\ NoPerm /\ NoFlows

InitBase == InitCall /\ InitStop /\ InitQueue

Init == InitBase /\ NoBridge /\ NoReg /\ NoDtmf /\ NoPlay /\ NoAdmin
InitWithBridge == InitBase /\ InitBridge /\ NoReg /\ NoDtmf /\ NoPlay /\ NoAdmin
InitWithReg == InitBase /\ NoBridge /\ InitReg /\ NoDtmf /\ NoPlay /\ NoAdmin
InitWithDtmf == InitBase /\ NoBridge /\ NoReg /\ InitDtmf /\ NoPlay /\ NoAdmin
InitWithPlay == InitBase /\ NoBridge /\ NoReg /\ NoDtmf /\ InitPlay /\ NoAdmin
NoMedia == NoBridge /\ NoReg /\ NoDtmf /\ NoPlay
InitWithIvr == InitBase /\ NoMedia /\ InitIvr /\ NoPerm /\ NoFlows
InitWithPerm == InitBase /\ NoMedia /\ NoIvr /\ InitPerm /\ NoFlows
InitWithFlows == InitBase /\ NoMedia /\ NoIvr /\ NoPerm /\ InitFlows

Next ==
    \/ \E hasSdp, hasFlow \in BOOLEAN : Ringing(hasSdp, hasFlow)
    \/ \E s \in SessIds, ok \in BOOLEAN : NegCreatePC(s, ok)
    \/ \E s \in SessIds, ok \in BOOLEAN : NegTrack(s, ok)
    \/ \E s \in SessIds, ok \in BOOLEAN : NegSetRemote(s, ok)
    \/ \E s \in SessIds, ok \in BOOLEAN : NegAnswer(s, ok)
    \/ \E s \in SessIds, ok \in BOOLEAN : NegGather(s, ok)
    \/ \E s \in SessIds, ok \in BOOLEAN : NegLocalDesc(s, ok)
    \/ \E s \in SessIds, ok \in BOOLEAN : NegPreAccept(s, ok)
    \/ \E s \in SessIds, ok \in BOOLEAN : NegAccept(s, ok)
    \/ \E s \in SessIds : NegSetAnswered(s)
    \/ \E s \in SessIds, timeout \in BOOLEAN : NegWaitMedia(s, timeout)
    \/ \E s \in SessIds : NegStartIVR(s)
    \/ \E s \in SessIds : PCConnected(s)
    \/ \E t \in Threads, s \in SessIds : PCFailed(t, s)
    \/ \E g \in Procs : CleanupLookup(g)
    \/ \E g \in Procs : CleanupLock(g)
    \/ \E g \in Procs : CleanupTeardown(g)
    \/ \E t \in Threads : RunSpawned(t)
    \/ \E t \in Threads, r \in SessIds, err \in BOOLEAN : WebhookEnded(t, r, err)
    \/ \E t \in Threads : WebhookError(t)
    \/ \E s \in SessIds : RequestTransfer(s)
    \/ \E s \in SessIds : ConnectTransfer(s)
    \/ \E s \in SessIds : AgentEndsTransfer(s)
    \/ \E t \in Threads, ev \in Events : HandleCallEvent(t, ev)
    \/ \E t \in Threads : EventSwitch(t)
    \/ \E t \in Threads : EventHangup(t)
    \/ \E t \in Threads : EventEndTransfer(t)
    \/ \E t \in Threads : EventReturn(t)

Spec == Init /\ [][Next]_vars

\* The call webhook with every event kind, repeated "ringing" included, the
\* call events reaching the manager and the cleanups they start; calls carry
\* no SDP offer and the account has no IVR flow, so no negotiation runs.
NextLog ==
    \/ WebhookRinging(FALSE, FALSE, FALSE)
    \/ \E err \in BOOLEAN : WebhookInCall(err)
    \/ \E err \in BOOLEAN : WebhookMissed(err)
    \/ \E t \in Threads, r \in SessIds, err \in BOOLEAN : WebhookEnded(t, r, err)
    \/ \E t \in Threads : WebhookError(t)
    \/ \E t \in Threads, ev \in Events : HandleCallEvent(t, ev)
    \/ \E t \in Threads : EventSwitch(t)
    \/ \E t \in Threads : RunSpawned(t)
    \/ \E g \in Procs : CleanupLookup(g)
    \/ \E g \in Procs : CleanupLock(g)
    \/ \E g \in Procs : CleanupTeardown(g)

SpecLog == Init /\ [][NextLog]_vars
\* The goroutines of the webhook handler and of cleanupSession run whenever
\* they can; which events the provider delivers, and when, is up to it.
FairLog ==
    /\ \A g \in Procs :
        /\ WF_vars(CleanupLookup(g))
        /\ WF_vars(CleanupLock(g))
        /\ WF_vars(CleanupTeardown(g))
    /\ \A t \in Threads :
        /\ WF_vars(RunSpawned(t))
        /\ WF_vars(WebhookError(t))
        /\ WF_vars(EventSwitch(t))

SpecLogLive == SpecLog /\ FairLog


SpecStop == Init /\ [][NextStop]_vars

SpecQueue == Init /\ [][NextQueue]_vars

SpecQueueOps == Init /\ [][NextQueueOps]_vars

SpecReg == InitWithReg /\ [][NextReg]_vars

SpecLocks == InitWithReg /\ [][NextLocks]_vars

SpecDtmf == InitWithDtmf /\ [][NextDtmf]_vars

SpecDtmfClose == InitWithDtmf /\ [][NextDtmfClose]_vars

SpecPlay == InitWithPlay /\ [][NextPlay]_vars

SpecIvr == InitWithIvr /\ [][NextIvr]_vars

SpecPerm == InitWithPerm /\ [][NextPerm]_vars

SpecFlows == InitWithFlows /\ [][NextFlows]_vars

\* The player's goroutine runs whenever it can: the ticker fires, the open
\* and the stop check complete.
FairLoop ==
    /\ WF_vars(\E ok \in BOOLEAN : PlayOpen(ok))
    /\ WF_vars(\E parseErr, writeErr \in BOOLEAN : PlayPage(parseErr, writeErr))
    /\ WF_vars(LoopCheck)

SpecLoopLive == InitWithPlay /\ [][NextLoop]_vars /\ FairLoop

SpecBridge == InitWithBridge /\ [][NextBridge]_vars

\* Every goroutine that can take a step takes it: a select, a write, a read of
\* a packet the track holds, a Wait on a zero counter. When the peers send and
\* when a track fails is up to them.
FairBridge ==
    /\ WF_vars(DrainSelect)
    /\ WF_vars(DrainRead(FALSE))
    /\ WF_vars(Start)
    /\ WF_vars(StartReturn)
    /\ \A src \in Srcs :
        /\ WF_vars(ForwardSelect(src))
        /\ WF_vars(ForwardRead(src, FALSE))
        /\ WF_vars(\E err \in BOOLEAN : ForwardWrite(src, err))

SpecBridgeLive == SpecBridge /\ FairBridge

\* ------------------------------------------------------------------ claims
NegDone(s) == proc[Neg(s)].pc = "done"
NegFailed(s) == sess[s].failedAt # "none"
InCleanup(g) == proc[g].pc \in {"clLookup", "clLock", "clTeardown"}
CleanupPending == spawned > 0 \/ \E g \in Procs : InCleanup(g)
Quiet == ~CleanupPending /\ \A t \in Threads : proc[Thr(t)].pc = "idle"

\* C1: every inbound negotiation that failed at some step and has returned
\* has had a reject or a terminate for its call sent to the provider (so a
\* pre-accepted call ends accepted, rejected or terminated).
C1_FailureSendsReject ==
    \A s \in SessIds :
        (NegFailed(s) /\ NegDone(s)) =>
            provider[s] \cap {"reject", "terminate"} # {}

\* C6: cleanup invoked repeatedly or concurrently for a call tears a session
\* down at most once: its DTMF channel is closed at most once, exactly once
\* when a teardown has run, and no cleanup panics closing a closed channel.
C6_CleanupOnce ==
    /\ crashed # "panic: close of closed channel"
    /\ \A s \in SessIds :
        /\ sess[s].teardowns <= 1
        /\ sess[s].dtmfCloses = sess[s].teardowns
        /\ (sess[s].teardowns = 1) => (sess[s].DTMFBuffer = "closed")

\* C6 witness: a session has been torn down and a further cleanup invocation
\* for the same call is under way.
C6_Witness ==
    \E s \in SessIds, g \in Procs :
        sess[s].teardowns = 1 /\ proc[g].pc = "clLookup"

\* C7: once cleanup has removed a session from the registry, no step changes
\* its status.
C7_NoTransitionAfterRemoval ==
    [][\A s \in SessIds : sess[s].removed => sess'[s].Status = sess[s].Status]_vars

\* C8: when a call has failed (negotiation error, ICE timeout, provider error
\* payload) and nothing is left running for it, its session has been removed
\* from the registry and its peer connection is closed.
C8_FailureCleansUp ==
    \A s \in SessIds :
        ((NegFailed(s) \/ callLog[s].status = "failed") /\ NegDone(s) /\ Quiet)
            => (sess[s].removed /\ sess[s].PeerConnection # "open")

\* C9: a call that received "ended" while its transfer was waiting has, once
\* the event is handled, its transfer marked abandoned and out of the queue,
\* and no bridge was started for it.
C9_EndedWhileWaitingAbandons ==
    \A s \in SessIds :
        (sess[s].endedWhile = "waiting" /\ Quiet) =>
            (xfer[s].status = "abandoned" /\ sess[s].bridgeStarts = 0)

\* C10: for a call that received "ended" while its transfer was connected,
\* the transfer-end path (bridge stopped, talk duration persisted) has run
\* whenever the call is marked completed or its session is torn down.
C10_TransferEndsBeforeCompleted ==
    \A s \in SessIds :
        (/\ sess[s].endedWhile = "connected"
         /\ \/ callLog[s].status = "completed"
            \/ sess[s].Status = "completed"
            \/ sess[s].teardowns > 0)
        => (xfer[s].status = "completed" /\ xfer[s].duration
            /\ sess[s].Bridge = "stopped")

\* C2: Stop called twice, or by two goroutines at once, never panics and
\* closes the stop channel at most once.
C2_StopNeverPanics ==
    /\ NoStopPanic
    /\ \A o \in StopObjs : stopCh[o].closes <= 1

\* C3: no transfer is handed to two callers of PickNextTransfer: a row is
\* picked at most once, the caller told "picked" holds the row, and a caller
\* told the queue is empty had nothing left to pick.
C3_NoDoubleAssignment ==
    /\ \A i \in Ids : transfers[i].picks <= 1
    /\ replies.op = "pick" =>
         IF replies.code = "picked"
         THEN /\ transfers[replies.id].agent = replies.who
              /\ transfers[replies.id].picks = 1
         ELSE Candidates(replies.who) = {}

\* C3 witness: a one-item queue whose item went to one agent while another
\* agent of the organization was told the queue is empty.
C3_Witness ==
    /\ Len(transfers) = 1
    /\ transfers[1].agent = "a1" /\ transfers[1].picks = 1
    /\ replies = Reply("pick", "a2", "empty", 0)

\* C4: at most one active transfer per (organization, contact).
C4_SingleActiveTransfer ==
    \A i, j \in Ids :
        (/\ i # j
         /\ transfers[i].status = "active" /\ transfers[j].status = "active"
         /\ transfers[i].org = transfers[j].org)
        => transfers[i].contact # transfers[j].contact

\* C4 witness: a create request was refused as a conflict.
C4_Witness ==
    /\ replies.op = "create" /\ replies.code = "conflict"
    /\ \E i \in Ids : transfers[i].status = "active"

\* C5: the row a pick returns is assigned to the picking agent and is no
\* younger than any candidate left for that agent (insertion order among
\* equal times), so repeated picks return rows in ascending transferred_at.
C5_PickIsFIFO ==
    (replies.op = "pick" /\ replies.code = "picked") =>
        /\ transfers[replies.id].agent = replies.who
        /\ \A j \in Candidates(replies.who) :
            \/ transfers[replies.id].transferred_at < transfers[j].transferred_at
            \/ /\ transfers[replies.id].transferred_at = transfers[j].transferred_at
               /\ replies.id < j

\* C5 witness: a pick returned a row while a strictly younger candidate
\* stayed queued.
C5_Witness ==
    /\ replies.op = "pick" /\ replies.code = "picked"
    /\ \E j \in Candidates(replies.who) :
          transfers[replies.id].transferred_at < transfers[j].transferred_at

C13_MissedMovesStatus ==
    [][/\ (\E err \in BOOLEAN : WebhookMissed(err)) =>
            /\ \A r \in Rows :
                  callLog[r].status \in {"ringing", "answered"} =>
                      callLog'[r].status \in {"missed", "failed"}
            /\ \A s \in SessIds :
                  (sessions[TheCall] = s
                     /\ sess[s].Status \in {"ringing", "answered"}) =>
                      sess'[s].Status = "missed"
       /\ \A t \in Threads :
            (EventSwitch(t) /\ proc[Thr(t)].ev = "missed"
               /\ sess[proc[Thr(t)].cs].Status \in {"ringing", "answered"}) =>
                sess'[proc[Thr(t)].cs].Status = "missed"]_vars

\* C14: the status of a call, in its CallLog and in its session, moves only
\* along ringing -> answered, answered -> completed, ringing | answered ->
\* missed and any -> failed; completed is never entered from ringing.
C14_StatusTransitions ==
    [][LET Moves == {<<"none", "ringing">>, <<"ringing", "answered">>,
                     <<"answered", "completed">>, <<"ringing", "missed">>,
                     <<"answered", "missed">>}
           Valid(a, b) == a = b \/ b = "failed" \/ <<a, b>> \in Moves
       IN \A s \in SessIds :
            /\ Valid(callLog[s].status, callLog'[s].status)
            /\ Valid(sess[s].Status, sess'[s].Status)]_vars

\* C15: once a CallLog is completed, missed, rejected or failed, no webhook
\* event changes it, except for the error annotation (status failed, error
\* message and end time set).
C15_TerminalLogImmutable ==
    [][\A r \in SessIds :
         callLog[r].status \in {"completed", "missed", "rejected", "failed"} =>
            \/ callLog'[r] = callLog[r]
            \/ callLog'[r] = [callLog[r] EXCEPT !.status = "failed",
                                                !.error_message = TRUE,
                                                !.ended_at = TRUE]]_vars

\* C16: the call ID has at most one CallLog row, whatever webhook events
\* were delivered for it.
C16_OneLogPerCall == Cardinality(Rows) <= 1

\* C17: a create for a contact that already has an active transfer answers
\* conflict, a create for a requested agent who is away answers that the
\* agent is away, a pick from an empty queue answers that the queue is empty,
\* and a step answering any of the three leaves every transfer as it was.
C17_ConflictsAreExplicit ==
    [][/\ replies'.code \in {"conflict", "agent_away", "empty"} =>
            transfers' = transfers
       /\ \A org \in Orgs, k \in Contacts, ag \in Agents \cup {NoAgent} :
            (replies'.op = "create" /\ OrgOfContact(k) = org
               /\ CreateAgentTransfer(org, k, NoTeam, ag)) =>
                LET dup == \E i \in Ids : /\ transfers[i].org = org
                                          /\ transfers[i].contact = k
                                          /\ transfers[i].status = "active"
                IN /\ dup => replies'.code = "conflict"
                   /\ (~dup /\ ag # NoAgent /\ ~IsAvailable(ag)) =>
                         replies'.code = "agent_away"
       /\ \A a \in Agents :
            (/\ replies'.op = "pick"
             /\ \A i \in Ids : \/ transfers[i].status # "active"
                                \/ transfers[i].agent # NoAgent
                                \/ transfers[i].org # OrgOfAgent(a)
             /\ PickNextTransfer(a)) =>
                replies'.code = "empty"]_vars

\* C17 witness: a create naming an agent who is away was refused while the
\* queue held a transfer.
C17_Witness ==
    /\ replies.op = "create" /\ replies.code = "agent_away"
    /\ transfers # <<>>

\* C18: ReturnAgentTransfersToQueue(agent, org) clears the assignee of every
\* active transfer the agent holds in the organization and returns their
\* number; no status changes, every other transfer is untouched, and the
\* cleared transfers are active and unassigned, hence pickable.
C18_ReturnToQueue ==
    [][\A a \in Agents :
         (replies'.op = "return"
            /\ ReturnAgentTransfersToQueue(a, OrgOfAgent(a))) =>
            LET held == {i \in Ids : /\ transfers[i].org = OrgOfAgent(a)
                                     /\ transfers[i].agent = a
                                     /\ transfers[i].status = "active"}
            IN /\ replies'.n = Cardinality(held)
               /\ Len(transfers') = Len(transfers)
               /\ \A i \in Ids :
                    /\ transfers'[i].status = transfers[i].status
                    /\ i \in held => transfers'[i].agent = NoAgent
                    /\ i \notin held =>
                         transfers'[i].agent = transfers[i].agent]_vars

\* C18 witness: an agent's one held transfer went back to the queue while
\* another agent kept theirs.
C18_Witness ==
    /\ replies.op = "return" /\ replies.n = 1
    /\ \E i \in Ids : /\ transfers[i].status = "active"
                       /\ transfers[i].agent \notin {NoAgent, replies.who}
    /\ \E i \in replies.ids : /\ transfers[i].status = "active"
                               /\ transfers[i].agent = NoAgent

\* C19: a step done for one organization lists, picks, creates and changes
\* only that organization's transfers, and a resume of another
\* organization's transfer answers not found and changes nothing.
C19_CrossOrgIsolation ==
    [][LET org == IF replies'.op \in {"pick", "return"}
                  THEN OrgOfAgent(replies'.who) ELSE replies'.who
       IN /\ replies'.op \in {"list", "return"} =>
                \A i \in replies'.ids : transfers'[i].org = org
          /\ (replies'.op = "pick" /\ replies'.code = "picked") =>
                transfers'[replies'.id].org = org
          /\ \A i \in 1..Len(transfers') :
                (i \notin Ids \/ transfers'[i] # transfers[i]) =>
                    transfers'[i].org = org
          /\ \A o \in Orgs, i \in Ids :
                (replies'.op = "resume" /\ transfers[i].org # o
                   /\ ResumeFromTransfer(o, i)) =>
                    (replies'.code = "not_found" /\ transfers' = transfers)]_vars

\* C19 witness: an organization was told another organization's active
\* transfer does not exist.
C19_Witness ==
    /\ replies.op = "resume" /\ replies.code = "not_found"
    /\ transfers[replies.id].org # replies.who
    /\ transfers[replies.id].status = "active"

\* C20: a transfer that is not active is never changed; resume and assign on
\* it answer that the transfer is not active; a resume of an active transfer
\* makes it resumed (and so closed to further resumes and assigns).
C20_OnlyActiveResumedOrAssigned ==
    [][/\ \A i \in Ids :
            transfers[i].status # "active" => transfers'[i] = transfers[i]
       /\ \A org \in Orgs, i \in Ids :
            /\ (replies'.op = "resume" /\ transfers[i].org = org
                  /\ ResumeFromTransfer(org, i)) =>
                  IF transfers[i].status = "active"
                  THEN transfers'[i].status = "resumed"
                  ELSE replies'.code = "not_active"
            /\ \A a \in Agents :
                  (replies'.op = "assign" /\ transfers[i].org = org
                     /\ transfers[i].status # "active"
                     /\ AssignAgentTransfer(org, i, a)) =>
                      replies'.code = "not_active"]_vars

\* C20 witness: a resume of an already resumed transfer was refused.
C20_Witness ==
    /\ replies.op = "resume" /\ replies.code = "not_active"
    /\ transfers[replies.id].status = "resumed"

IsPrefix(a, b) == Len(a) <= Len(b) /\ a = SubSeq(b, 1, Len(a))

\* C21: in both directions, what a forward goroutine has written to its
\* destination track is a prefix of what it has read from its source track:
\* the same packets, byte for byte, in the same order, none twice.
C21_RelayIsPrefix ==
    \A src \in Srcs : IsPrefix(wroteLog[src], readLog[src])

\* Two packets relayed caller to agent, the second shorter than the first, and
\* one relayed agent to caller.
C21_Witness ==
    /\ wroteLog["callerRemote"] = << <<2, 2>>, <<1>> >>
    /\ Len(wroteLog["agentRemote"]) >= 1

\* C22: Start has returned only when both forward goroutines have exited, and
\* once Stop has been called on a bridge that was started, both exit and
\* Start returns.
C22_StopEndsStart ==
    /\ [](starter = "returned" => \A src \in Srcs : fwd[src].pc = "done")
    /\ (stopCh["bridge"].closed /\ starter \in {"start", "wait"})
          ~> (starter = "returned")

\* C23: once the bridge-started signal has fired the drain goroutine reads no
\* more packet of the caller's remote track, and the drain goroutine and the
\* bridge's forward goroutine are never both in a read of that track.
C23_DrainYieldsTrack ==
    /\ drain.late = 0
    /\ ~(drain.pc = "read" /\ fwd["callerRemote"].pc = "read")

\* C24: a goroutine inside the section of cleanupSession guarded by a
\* session's lock holds that lock, so that no second goroutine can enter a
\* section of the same lock and write the session's status or transfer status
\* meanwhile.
C24_LockSerializes ==
    \A g \in Procs :
        proc[g].pc = "clTeardown" => smu[proc[g].cs] = g

\* C25: a goroutine that holds the registry lock, as writer or as reader, is
\* at an operation on the session map: it is not waiting for a session's
\* lock, not in a teardown (stopping the bridge or the player, closing peer
\* connections) and not in a provider call.
C25_RegistryLockOnlyForMap ==
    \A t \in Threads :
        (mmu.w = Thr(t) \/ Thr(t) \in mmu.r) =>
            /\ caller[t].pc \in {"hicMap", "gsMap", "clMap"}
            /\ proc[Thr(t)].pc = "idle"

\* One goroutine is in a session's teardown while another holds the registry
\* lock.
C25_Witness ==
    \E t, u \in Threads :
        /\ proc[Thr(t)].pc = "clTeardown"
        /\ mmu.w = Thr(u)

\* C26: GetSession(callID) returns the session HandleIncomingCall registered
\* for the call ID as long as no cleanup for it has run, and absent once the
\* cleanup has run.
C26_RegisteredUntilCleanup ==
    [][\A t \in Threads : GetSession(t) =>
        \A s \in SessIds :
            /\ (sess[s].Status # "none" /\ ~sess[s].removed) =>
                    caller'[t].got = s
            /\ sess[s].removed => caller'[t].got # s]_vars

\* C27 (a goroutine leaves "clTeardown" by CleanupTeardown only): when
\* cleanupSession's teardown of a session completes, the session's
\* bridge and hold player, if it has them, are stopped, its transfer
\* cancellation handle, if set, has been called, each peer connection it holds
\* is closed and its DTMF channel is closed.
C27_TeardownReleasesAll ==
    [][\A g \in Procs :
        (proc[g].pc = "clTeardown" /\ proc'[g].pc # "clTeardown") =>
            LET s == proc[g].cs IN
                /\ sess'[s].Bridge \in {"nil", "stopped"}
                /\ sess'[s].HoldPlayer \in {"nil", "stopped"}
                /\ sess'[s].TransferCancel \in {"nil", "called"}
                /\ sess'[s].AgentPC \in {"nil", "closed"}
                /\ sess'[s].PeerConnection \in {"nil", "closed"}
                /\ sess'[s].DTMFBuffer = "closed"
                /\ sess[s].Bridge # "nil" => sess'[s].Bridge = "stopped"
                /\ sess[s].AgentPC # "nil" => sess'[s].AgentPC = "closed"
                /\ sess[s].PeerConnection # "nil" =>
                        sess'[s].PeerConnection = "closed"]_vars

\* A session torn down while its transfer was connected: the teardown stopped
\* the bridge, called the cancellation handle and closed both connections.
C27_Witness ==
    \E s \in SessIds :
        /\ sess[s].teardowns = 1
        /\ sess[s].TransferStatus = "connected"
        /\ sess[s].Bridge = "stopped"
        /\ sess[s].HoldPlayer = "stopped"
        /\ sess[s].TransferCancel = "called"
        /\ sess[s].AgentPC = "closed"
        /\ sess[s].PeerConnection = "closed"
        /\ sess[s].DTMFBuffer = "closed"

\* C28: the session's DTMF channel never holds more than 32 digits, and the
\* DTMF read loop is never blocked pushing a digit: the push can always be
\* taken, and with the channel full it drops the digit and goes on reading.
C28_DTMFBoundedNonBlocking ==
    /\ [](Len(dtmf) <= DTMFCap)
    /\ [](dtmfLoop.pc = "push" => ENABLED DtmfPush)
    /\ [][(DtmfPush /\ Len(dtmf) = DTMFCap) =>
            /\ dtmf' = dtmf
            /\ dtmfLoop'.pc = "read"
            /\ dtmfLoop'.dropped = dtmfLoop.dropped + 1]_vars

\* A digit was dropped on a full channel and the loop is reading again.
C28_Witness ==
    /\ Len(dtmf) = DTMFCap
    /\ dtmfLoop.dropped >= 1
    /\ dtmfLoop.pc = "read"

\* C29: within one PlayFile call each audio packet sent after the first has a
\* sequence number one higher modulo 2^16 and a timestamp 960 higher than the
\* packet sent before it; a header page is skipped: nothing is sent and
\* neither counter moves.
C29_SequenceAndTimestamp ==
    [][\A parseErr, writeErr \in BOOLEAN :
        (player.pc = "tick" /\ PlayPage(parseErr, writeErr)) =>
            /\ (rtp' # rtp /\ rtp.n > 0) =>
                /\ rtp'.SequenceNumber = (rtp.SequenceNumber + 1) % SeqMod
                /\ rtp'.Timestamp = rtp.Timestamp + SamplesPerFrame
            /\ (player.pos < player.file.len /\ ~parseErr
                    /\ player.pos + 1 \in player.file.hdr) =>
                /\ rtp' = rtp
                /\ player'.sequenceNumber = player.sequenceNumber
                /\ player'.timestamp = player.timestamp]_vars

\* The sequence number has wrapped to zero after 65536 packets, two header
\* pages having been skipped.
C29_Witness ==
    /\ rtp.n = SeqMod + 1
    /\ rtp.SequenceNumber = 0
    /\ rtp.Timestamp = SeqMod * SamplesPerFrame
    /\ player.pos = SeqMod + 3

C31_UnmappedDigitRetries ==
    [][(/\ ivr.mode = "ivr"
        /\ ivr'.digits = ivr.digits + 1
        /\ ivr'.last \in Keys \ DOMAIN Options(ivr.node)) =>
            /\ ivr'.played = InvalidInputMessage(ivr.node)
            /\ ivr'.retries = ivr.retries + 1
            /\ ivr'.node = ivr.node
            /\ IF ivr'.retries > MaxRetriesOf(ivr.node)
               THEN ivr'.mode = "transfer" /\ ivr'.fallback
               ELSE ivr'.mode = "ivr" /\ ~ivr'.fallback]_vars

\* An unmapped digit in the second-level node took the counter past the node's
\* max-retries and the call fell back to the transfer.
C31_Witness ==
    /\ ivr.node = 2 /\ ivr.last = 5
    /\ ivr.retries = MaxRetriesOf(2) + 1
    /\ ivr.mode = "transfer" /\ ivr.fallback
    /\ ivr.played = InvalidInputMessage(2)

\* C32: GetCallPermission never reports status accepted for a permission whose
\* response is more than 72 hours old: the response says expired and the row
\* is persisted as expired.
C32_AcceptedExpiresAfter72h ==
    (/\ permReply.code = 200
     /\ permReply.RespondedAt # NoTime
     /\ permReply.at - permReply.RespondedAt > ExpiryHours) =>
        /\ permReply.status = "expired"
        /\ permissions[permReply.row].Status = "expired"

\* A permission answered 73 hours before the request was reported expired,
\* after one answered exactly 72 hours before had been reported accepted.
C32_Witness ==
    /\ permReply.code = 200 /\ permReply.status = "expired"
    /\ permReply.at - permReply.RespondedAt = ExpiryHours + 1
    /\ permissions[permReply.row].Status = "expired"
    /\ \E i \in DOMAIN permissions :
        /\ permissions[i].Status = "accepted"
        /\ hours - permissions[i].RespondedAt <= ExpiryHours

\* C33: on every path through HandleCallEvent, the transfer branches of
\* "ended" / "missed" / "unanswered" included, the session lock taken at entry
\* is released exactly once: the Unlock that runs when the handler returns is
\* made by the goroutine that holds the lock.
C33_EventUnlocksOnce ==
    [][\A t \in Threads :
        (proc[Thr(t)].pc = "evReturn" /\ proc'[Thr(t)].pc # "evReturn") =>
            smu[proc[Thr(t)].cs] = Thr(t)]_vars

\* C34: once cleanupSession has torn a session down while its negotiation is
\* still in flight, the negotiation sends no pre-accept and no accept for the
\* call afterwards and does not start its IVR.
C34_NoHandshakeAfterCleanup ==
    [][\A s \in SessIds :
        sess[s].teardowns > 0 =>
            /\ (provider'[s] \ provider[s]) \cap {"pre_accept", "accept"} = {}
            /\ sess'[s].ivrStarted => sess[s].ivrStarted]_vars

\* C35: an inbound call that received a terminal webhook event (ended, missed
\* or unanswered: its CallLog was marked completed or missed) eventually has
\* no session in the registry.
C35_TerminalEventRemovesSession ==
    (\E r \in SessIds : callLog[r].status \in {"missed", "completed"}) ~>
        (sessions[TheCall] = NoSession)

\* C36: every session HandleIncomingCall created is either still the one the
\* registry holds for its call ID or was taken out of the registry by
\* cleanupSession, a second "ringing" event for the call ID notwithstanding:
\* no session is unreachable from the registry without a cleanup.
C36_NoOrphanSession ==
    \A s \in SessIds :
        (sess[s].Status # "none" /\ sessions[TheCall] # s) => sess[s].removed

\* C37: no goroutine sends a digit on a session's DTMF channel after
\* cleanupSession has closed the channel.
C37_NoSendAfterClose == crashed # "panic: send on closed channel"

\* The locks a goroutine holds: "m" for the registry lock (as writer or as
\* reader), s for the lock of session s.
Holds(g) ==
    (IF mmu.w = g \/ g \in mmu.r THEN {"m"} ELSE {}) \cup
        {s \in SessIds : smu[s] = g}

\* The goroutine is about to take a lock, or waits for one: a handler about
\* to enter a registry operation, cleanupSession and HandleCallEvent before
\* session.mu.Lock(), the negotiation before one of its writes under
\* session.mu.
AtAcquire(g) ==
    \/ \E t \in Threads : g = Thr(t) /\ Free(t)
    \/ proc[g].pc \in {"clLock", "evLock", "createPC", "track"}

\* C38: no interleaving of HandleIncomingCall, HandleCallEvent, EndCall,
\* GetSession, the negotiation goroutine and the connection-state callback
\* waits for the registry lock and the session locks in a cycle: a goroutine
\* that takes or waits for a lock holds no lock, and whoever holds a lock is
\* at a step that waits for none (a map operation, the teardown).
C38_NoLockCycle ==
    /\ \A g \in Procs : AtAcquire(g) => Holds(g) = {}
    /\ \A t \in Threads :
        (mmu.w = Thr(t) \/ Thr(t) \in mmu.r) =>
            caller[t].pc \in {"hicMap", "gsMap", "clMap", "evMap"}
    /\ \A s \in SessIds :
        smu[s] # NoHolder => proc[smu[s]].pc = "clTeardown"

\* HandleCallEvent and the negotiation both wait for the lock of a session
\* that a cleanup holds, while another goroutine holds the registry lock.
C38_Witness ==
    \E t, u \in Threads, s \in SessIds :
        /\ t # u
        /\ proc[Thr(t)].pc = "clTeardown" /\ smu[s] = Thr(t)
        /\ proc[Neg(s)].pc \in {"createPC", "track"}
        /\ mmu.w = Thr(u)

\* C39: after any sequence of IVR-flow create and update operations at most
\* one flow is active per organization and WhatsApp account, so the flow
\* attached to a ringing call is uniquely determined.
C39_OneActiveFlowPerAccount ==
    \A org \in Orgs, account \in Accounts :
        Cardinality(ActiveFlows(org, account)) <= 1

\* C40: across successive iterations of PlayFileLoop on one player the RTP
\* sequence numbers and timestamps written to the track keep increasing: an
\* iteration that follows one that sent packets starts with the sequence
\* number after the last packet's and with a later timestamp, not from zero.
C40_LoopContinuesCounters ==
    [][(/\ player.loop
        /\ player.pc = "open" /\ player'.pc = "tick"
        /\ rtp.n > 0) =>
            /\ player'.sequenceNumber = (rtp.SequenceNumber + 1) % SeqMod
            /\ player'.timestamp > rtp.Timestamp]_vars

====
